---- MODULE Spec2Model ----
(***************************************************************************)
(* Model of the multi-agent task coordinator of DuckBot-DE                  *)
(* (src/duckbot-desktop-services/multi-agent-coordinator.py): the agent     *)
(* registry, the task store, the per-priority queues, the scheduler loop,   *)
(* the agent selector, task execution and the performance tracker.          *)
(*                                                                         *)
(* Concurrency is asyncio's: one coroutine runs at a time and control       *)
(* changes hands only where a coroutine suspends (asyncio.sleep, the call   *)
(* of the execution capability).  Each action below is one run of a         *)
(* coroutine from one suspension point to the next.  The database helpers   *)
(* (_save_task, _save_agent, the metric INSERT) do not suspend; each may    *)
(* raise, which the model draws nondeterministically.                       *)
(*                                                                         *)
(* Reals are exact rationals <<numerator, denominator>>; load_factor is     *)
(* counted in tenths.  Time is counted in clock ticks of ClockStep seconds; *)
(* now is the last value time.time() returned, and a step that reads the     *)
(* clock may find it advanced.                                                *)
(***************************************************************************)
EXTENDS Integers, Sequences, FiniteSets, TLC

\* ------------------------------------------------------------- bounds
\* number of tasks submitted in one run
MaxTasks == 2
\* last value of the clock
MaxTime == 2
\* seconds in one clock tick
ClockStep == 3600
\* number of steps of one run in which a database call raises
MaxDbFaults == 1

\* ---------------------------------------------------- program constants
\* config['load_balance_threshold'] = 0.8, in tenths
LoadBalanceThreshold == 8
\* load_factor +/- 0.3 on assignment and cleanup, in tenths
LoadStep == 3
\* load_factor is clamped to 1.0, in tenths
LoadMax == 10
\* recency bonus window: 3600 seconds
RecencyWindow == 3600
\* speed bonus baseline: 300 seconds
SpeedBaseline == 300
\* config['max_agents_per_task']
MaxAgentsPerTask == 5

Null == 0

Min(a, b) == IF a <= b THEN a ELSE b
Max(a, b) == IF a >= b THEN a ELSE b

\* ----------------------------------------------------------- rationals
RECURSIVE GCD(_, _)
GCD(a, b) == IF b = 0 THEN a ELSE GCD(b, a % b)

\* n/d in lowest terms, d > 0, n >= 0
Rat(n, d) == LET g == GCD(n, d) IN IF n = 0 THEN <<0, 1>> ELSE <<n \div g, d \div g>>
RatInt(n) == <<n, 1>>
RatAdd(x, y) == Rat(x[1] * y[2] + y[1] * x[2], x[2] * y[2])
RatMul(x, y) == Rat(x[1] * y[1], x[2] * y[2])
\* x < y and x <= y for fractions that are not negative: the whole parts are
\* compared first, which keeps the products small
RatLess(x, y) ==
  \/ x[1] \div x[2] < y[1] \div y[2]
  \/ /\ x[1] \div x[2] = y[1] \div y[2]
     /\ (x[1] % x[2]) * y[2] < (y[1] % y[2]) * x[2]
RatLeq(x, y) == ~RatLess(y, x)
RatMin(x, y) == IF RatLeq(x, y) THEN x ELSE y

\* ----------------------------------------------------- enumerated types
\* TaskPriority: LOW = 1 .. EMERGENCY = 5
LOW == 1
MEDIUM == 2
HIGH == 3
CRITICAL == 4
EMERGENCY == 5
TaskPriority == LOW .. EMERGENCY

\* mutant: the scan runs from LOW up
ScanOrderAscending == <<LOW, MEDIUM, HIGH, CRITICAL, EMERGENCY>>

\* reversed(list(TaskPriority)): the order of the scheduler's scan
PriorityScanOrder == <<EMERGENCY, CRITICAL, HIGH, MEDIUM, LOW>>

TaskStatus == {"pending", "assigned", "in_progress", "waiting", "completed", "failed", "cancelled"}

AgentType == {"research", "development", "automation", "analysis", "communication",
              "creative", "system", "coordination"}

\* ------------------------------------------------------- agent catalog
\* _init_default_agents, in insertion order.  preferred_models and
\* resource_requirements only pick the model hint passed to the execution
\* capability and are left out.
DefaultAgents ==
  << [agent_id |-> "research_specialist", agent_type |-> "research",
      capabilities |-> {"web_search", "data_analysis", "summarization", "fact_checking"},
      specializations |-> {"academic_research", "market_research", "technical_documentation"}],
     [agent_id |-> "development_expert", agent_type |-> "development",
      capabilities |-> {"code_generation", "debugging", "testing", "architecture_design"},
      specializations |-> {"python", "javascript", "system_programming", "web_development"}],
     [agent_id |-> "automation_engineer", agent_type |-> "automation",
      capabilities |-> {"script_generation", "workflow_design", "system_integration", "monitoring"},
      specializations |-> {"bash_scripting", "python_automation", "desktop_automation"}],
     [agent_id |-> "data_analyst", agent_type |-> "analysis",
      capabilities |-> {"data_processing", "statistical_analysis", "visualization", "reporting"},
      specializations |-> {"pandas", "matplotlib", "statistical_modeling", "business_intelligence"}],
     [agent_id |-> "communication_assistant", agent_type |-> "communication",
      capabilities |-> {"content_writing", "email_composition", "social_media", "translation"},
      specializations |-> {"professional_writing", "technical_writing", "customer_service"}],
     [agent_id |-> "creative_designer", agent_type |-> "creative",
      capabilities |-> {"content_creation", "design_thinking", "brainstorming", "visual_design"},
      specializations |-> {"graphic_design", "ui_ux", "creative_writing", "branding"}],
     [agent_id |-> "system_administrator", agent_type |-> "system",
      capabilities |-> {"system_monitoring", "performance_optimization", "security", "maintenance"},
      specializations |-> {"linux_administration", "network_management", "security_auditing"}],
     [agent_id |-> "coordination_master", agent_type |-> "coordination",
      capabilities |-> {"task_decomposition", "agent_selection", "load_balancing", "conflict_resolution"},
      specializations |-> {"project_management", "resource_allocation", "strategic_planning"}] >>

\* The agents of the catalog the model keeps, and the registry: the kept
\* agents in the catalog's (dict insertion) order.
ModelledAgents == {"research_specialist", "development_expert", "coordination_master"}

InRegistry(entry) == entry.agent_id \in ModelledAgents

Registry == SelectSeq(DefaultAgents, InRegistry)

AgentIndex == 1 .. Len(Registry)

\* A fresh Agent: the dataclass defaults of the dynamic fields.
NewAgent(entry) ==
  [agent_id |-> entry.agent_id, agent_type |-> entry.agent_type,
   capabilities |-> entry.capabilities, specializations |-> entry.specializations,
   current_task |-> Null, status |-> "idle", load_factor |-> 0,
   success_rate |-> RatInt(1), last_active |-> 0,
   total_tasks_completed |-> 0, average_completion_time |-> RatInt(0)]

\* --------------------------------------------------------- the selector
\* task_type_mapping of _agent_can_handle_task; .get(task_type, [])
TaskTypeMapping(task_type) ==
  CASE task_type = "research" -> {"research", "analysis"}
    [] task_type = "development" -> {"development", "automation"}
    [] task_type = "analysis" -> {"analysis", "research"}
    [] task_type = "automation" -> {"automation", "system"}
    [] task_type = "communication" -> {"communication", "creative"}
    [] task_type = "creative" -> {"creative", "communication"}
    [] task_type = "system" -> {"system", "automation"}
    [] OTHER -> {}

\* mutant: coverage > 0.5
CoverageMoreThanHalf(overlap, required) == 2 * overlap > required

\* coverage >= 0.5, coverage = overlap / len(required)
CoverageAtLeastHalf(overlap, required) == 2 * overlap >= required

\* mutant: the required capabilities are ignored, the type decides
agent_can_handle_task_by_type(agent, task) ==
  agent.agent_type \in TaskTypeMapping(task.task_type) \/ agent.agent_type = "coordination"

\* _agent_can_handle_task
agent_can_handle_task(agent, task) ==
  LET required == task.context.required_capabilities
  IN IF required # {}
     THEN CoverageAtLeastHalf(Cardinality(agent.capabilities \cap required), Cardinality(required))
     ELSE agent.agent_type \in TaskTypeMapping(task.task_type)
          \/ agent.agent_type = "coordination"

SpeedFactor(avg) == RatMin(RatInt(1), Rat(SpeedBaseline * avg[2], avg[1] * ClockStep))

calculate_agent_score(agent, task, time_now) ==
  LET task_caps == task.context.required_capabilities
      task_specs == task.context.specializations
      overlap == Cardinality(task_specs \cap agent.specializations)
      s1 == RatMul(agent.success_rate, RatInt(30))
      s2 == RatInt((LoadMax - agent.load_factor) * 2)
      s3 == IF task_caps # {}
            THEN Rat(Cardinality(task_caps \cap agent.capabilities) * 25, Cardinality(task_caps))
            ELSE RatInt(0)
      s4 == IF task_specs # {} /\ overlap > 0 THEN RatInt(overlap * 15) ELSE RatInt(0)
      s5 == IF (time_now - agent.last_active) * ClockStep < RecencyWindow THEN RatInt(10) ELSE RatInt(0)
      s6 == IF agent.average_completion_time[1] > 0 /\ task.priority \in {HIGH, CRITICAL, EMERGENCY}
            THEN RatMul(SpeedFactor(agent.average_completion_time), RatInt(10))
            ELSE RatInt(0)
  IN RatAdd(RatAdd(RatAdd(s1, s2), RatAdd(s3, s4)), RatAdd(s5, s6))

\* mutant: the filter forgets the load threshold
IsAvailableAnyLoad(agent, task) ==
  /\ agent.status = "idle"
  /\ agent_can_handle_task(agent, task)

\* the filter of _select_best_agent
IsAvailable(agent, task) ==
  /\ agent.status = "idle"
  /\ agent.load_factor < LoadBalanceThreshold
  /\ agent_can_handle_task(agent, task)

\* available_agents: the registry indices that pass the filter, in registry order
RECURSIVE AvailableFrom(_, _, _)
AvailableFrom(ags, task, i) ==
  IF i > Len(ags) THEN <<>>
  ELSE (IF IsAvailable(ags[i], task) THEN <<i>> ELSE <<>>) \o AvailableFrom(ags, task, i + 1)

available_agents(ags, task) == AvailableFrom(ags, task, 1)

\* scored_agents: <<agent index, score>> for each available agent
ScoredAgents(ags, task, time_now) ==
  LET avail == available_agents(ags, task)
  IN [k \in 1 .. Len(avail) |-> <<avail[k], calculate_agent_score(ags[avail[k]], task, time_now)>>]

\* mutant: an unstable descending sort, x goes before entries of equal score
RECURSIVE InsertByScoreUnstable(_, _)
InsertByScoreUnstable(sorted, x) ==
  IF sorted = <<>> THEN <<x>>
  ELSE IF RatLeq(Head(sorted)[2], x[2]) THEN <<x>> \o sorted
  ELSE <<Head(sorted)>> \o InsertByScoreUnstable(Tail(sorted), x)

\* list.sort(key=lambda x: x[1], reverse=True): a stable sort, so entries of
\* equal score keep their order.  Insertion of x behind every entry whose
\* score is not smaller.
RECURSIVE InsertByScore(_, _)
InsertByScore(sorted, x) ==
  IF sorted = <<>> THEN <<x>>
  ELSE IF RatLess(Head(sorted)[2], x[2]) THEN <<x>> \o sorted
  ELSE <<Head(sorted)>> \o InsertByScore(Tail(sorted), x)

RECURSIVE SortByScoreDesc(_)
SortByScoreDesc(scored) ==
  IF scored = <<>> THEN <<>>
  ELSE InsertByScore(SortByScoreDesc(SubSeq(scored, 1, Len(scored) - 1)), scored[Len(scored)])

\* ags: the registry as a sequence of agents; the result is an index into
\* it, Null for None
select_best_agent(ags, task, time_now) ==
  LET scored == ScoredAgents(ags, task, time_now)
  IN IF scored = <<>> THEN Null ELSE SortByScoreDesc(scored)[1][1]

\* ------------------------------------------------- performance tracker
\* mutant: the old success rate is weighted with the new count
update_agent_performance_new_count(agent, duration, success) ==
  LET total_tasks == agent.total_tasks_completed + 1
      sr == agent.success_rate
  IN [agent EXCEPT !.success_rate =
        Rat(sr[1] * total_tasks + (IF success THEN sr[2] ELSE 0), sr[2] * total_tasks)]

\* _update_agent_performance: the in-memory part.  duration is
\* task.actual_duration in ticks; `if task.actual_duration:` skips 0.
update_agent_performance(agent, duration, success) ==
  LET count == agent.total_tasks_completed
      total_tasks == count + 1
      sr == agent.success_rate
      new_sr == Rat(sr[1] * count + (IF success THEN sr[2] ELSE 0), sr[2] * total_tasks)
      avg == agent.average_completion_time
      new_avg == IF duration = 0 THEN avg
                 ELSE IF avg[1] = 0 THEN RatInt(duration)
                 ELSE Rat(avg[1] * count + duration * avg[2], avg[2] * total_tasks)
  IN [agent EXCEPT !.success_rate = new_sr, !.average_completion_time = new_avg]

\* mutant: the load step is subtracted on assignment
AssignLoadSubtracts(load) == Min(LoadMax, load - LoadStep)

\* agent.load_factor = min(1.0, agent.load_factor + 0.3)
AssignLoad(load) == Min(LoadMax, load + LoadStep)

\* agent.load_factor = max(0.0, agent.load_factor - 0.3)
ReleaseLoad(load) == Max(0, load - LoadStep)

\* mutant: the cleanup forgets to release the load
CleanupAgentKeepsLoad(agent) ==
  [agent EXCEPT !.current_task = Null, !.status = "idle",
                !.total_tasks_completed = agent.total_tasks_completed + 1]

\* the finally block of _execute_task: the in-memory part
CleanupAgent(agent) ==
  [agent EXCEPT !.current_task = Null, !.status = "idle",
                !.load_factor = ReleaseLoad(agent.load_factor),
                !.total_tasks_completed = agent.total_tasks_completed + 1]

\* mutant: every priority from HIGH up counts as an indicator
task_requires_collaboration_urgent(task) ==
  LET indicators == << task.description.length > 500,
                       task.context.estimated_subtasks > 3,
                       Cardinality(task.context.required_capabilities) > 3,
                       task.priority >= HIGH,
                       task.description.mentions_collaboration >>
  IN Cardinality({i \in 1 .. 5 : indicators[i]}) >= 2

\* _task_requires_collaboration
task_requires_collaboration(task) ==
  LET indicators == << task.description.length > 500,
                       task.context.estimated_subtasks > 3,
                       Cardinality(task.context.required_capabilities) > 3,
                       task.priority \in {HIGH, CRITICAL},
                       task.description.mentions_collaboration >>
  IN Cardinality({i \in 1 .. 5 : indicators[i]}) >= 2

\* mutant: the loop takes agents that are at work or loaded too
RECURSIVE CollaborationAgentsAnyState(_, _, _, _, _)
CollaborationAgentsAnyState(ags, primary, i, chosen, missing) ==
  IF i > Len(ags) THEN chosen
  ELSE IF /\ i # primary
          /\ Len(chosen) < MaxAgentsPerTask - 1
          /\ ags[i].capabilities \cap missing # {}
       THEN IF missing \ ags[i].capabilities = {}
            THEN Append(chosen, i)
            ELSE CollaborationAgentsAnyState(ags, primary, i + 1, Append(chosen, i),
                                             missing \ ags[i].capabilities)
       ELSE CollaborationAgentsAnyState(ags, primary, i + 1, chosen, missing)

\* _select_collaboration_agents: the loop over self.agents from index i on;
\* chosen is additional_agents, missing is missing_capabilities
RECURSIVE CollaborationAgentsFrom(_, _, _, _, _)
CollaborationAgentsFrom(ags, primary, i, chosen, missing) ==
  IF i > Len(ags) THEN chosen
  ELSE IF /\ i # primary
          /\ ags[i].status = "idle"
          /\ ags[i].load_factor < LoadBalanceThreshold
          /\ Len(chosen) < MaxAgentsPerTask - 1
          /\ ags[i].capabilities \cap missing # {}
       THEN IF missing \ ags[i].capabilities = {}
            THEN Append(chosen, i)
            ELSE CollaborationAgentsFrom(ags, primary, i + 1, Append(chosen, i),
                                         missing \ ags[i].capabilities)
       ELSE CollaborationAgentsFrom(ags, primary, i + 1, chosen, missing)

select_collaboration_agents(ags, task, primary) ==
  LET missing == task.context.required_capabilities \ ags[primary].capabilities
  IN IF missing # {} THEN CollaborationAgentsFrom(ags, primary, 1, <<>>, missing) ELSE <<>>

\* role_assignments.get(agent.agent_type, "specialist")
RoleOfType(agent_type) ==
  CASE agent_type = "research" -> "researcher"
    [] agent_type = "development" -> "developer"
    [] agent_type = "automation" -> "automator"
    [] agent_type = "analysis" -> "analyst"
    [] agent_type = "communication" -> "communicator"
    [] agent_type = "creative" -> "creative_lead"
    [] agent_type = "system" -> "system_specialist"
    [] OTHER -> "specialist"

\* _assign_collaboration_roles: the roles of all_agents, position by position
assign_collaboration_roles(ags, all_agents) ==
  [k \in 1 .. Len(all_agents) |->
     IF k = 1 THEN "coordinator" ELSE RoleOfType(ags[all_agents[k]].agent_type)]

\* Collaboration(...) as _execute_collaborative_task builds it
NewCollaboration(ags, task, primary) ==
  LET all_agents == <<primary>> \o select_collaboration_agents(ags, task, primary)
  IN [task_id |-> task.task_id, participating_agents |-> all_agents,
      primary_agent |-> primary, collaboration_type |-> "hierarchical",
      status |-> "active", completed |-> FALSE,
      agent_roles |-> assign_collaboration_roles(ags, all_agents),
      communication_log |-> <<>>]

\* the collaborations table, by position in self.collaborations: every
\* _save_collaboration raises before its INSERT, so the table holds no row
db_collaborations == <<>>

\* ------------------------------------------------------------ the state
VARIABLES
  agents,               \* self.agents: the registry, a sequence of Agent records
  tasks,                \* self.tasks: task_id -> Task; ids are 1, 2, ... in submission order
  collaborations,       \* self.collaborations, in creation order
  task_queues,          \* self.task_queues: priority -> FIFO of task ids
  db_tasks,             \* table tasks: task_id -> the row last written
  db_agents,            \* table agents: registry index -> the row last written
  performance_metrics,  \* table performance_metrics: the rows in insertion order
  submitted,            \* task ids whose _save_task and queue.put jobs exist and have not run yet
  sched,                \* _scheduler_loop: where it stands
  exec,                 \* task_id -> where the task's _execute_task coroutine stands
  now,                  \* the last value of time.time(), in ticks
  duckbot_ai,           \* whether self.duckbot_ai is set and DUCKBOT_AVAILABLE
  memento_available,    \* self.memento_available
  status_log,           \* history: task_id -> every value assigned to task.status, in order
  tick_popped,          \* history: the priorities whose queue was popped in the current tick
  requeued,             \* history: the task ids that were re-enqueued after a failed attempt
  db_faults,            \* history: the number of database calls that raised so far
  sel                   \* a function of the program applied to drawn inputs (SelSpec, RouteSpec,
                        \* ScoreSpec, HierSpec, CollabSpec, RecordSpec, ParseSpec, ProgressSpec,
                        \* RoundTripSpec)

store == <<agents, tasks, collaborations>>
tables == <<db_tasks, db_agents, performance_metrics>>
vars == <<agents, tasks, collaborations, task_queues, db_tasks, db_agents,
          performance_metrics, submitted, sched, exec, now, duckbot_ai,
                 memento_available, status_log,
          tick_popped, requeued, db_faults, sel>>

TaskIds == DOMAIN tasks

\* what SubmitTask is called with: description as its length and whether its
\* lower-cased text contains 'collaboration'; context as its recognised keys
NoContext == [required_capabilities |-> {}, specializations |-> {}, estimated_subtasks |-> 0]

ShortText == [length |-> 40, mentions_collaboration |-> FALSE]

TaskInputs ==
  { [task_type |-> "development", priority |-> MEDIUM, description |-> ShortText,
     context |-> NoContext],
    [task_type |-> "housekeeping", priority |-> LOW, description |-> ShortText,
     context |-> NoContext],
    [task_type |-> "development", priority |-> HIGH,
     description |-> [length |-> 60, mentions_collaboration |-> TRUE],
     context |-> [NoContext EXCEPT !.required_capabilities = {"code_generation", "web_search"}]],
    [task_type |-> "development", priority |-> EMERGENCY, description |-> ShortText,
     context |-> [NoContext EXCEPT !.required_capabilities = {"video_editing"}]] }

NoResult == [kind |-> "none", success |-> "absent", error |-> "", execution_type |-> ""]

NotSaved == [status |-> "absent"]

\* Task(...) as SubmitTask builds it.  created_at and updated_at, which
\* only _calculate_task_progress reads, are left out.
NewTask(id, input) ==
  [task_id |-> id, task_type |-> input.task_type, priority |-> input.priority,
   description |-> input.description, context |-> input.context,
   status |-> "pending", assigned_agent |-> Null,
   result |-> NoResult, error_message |-> "", actual_duration |-> Null]

\* started_during is history: the tasks that were suspended in their
\* execution request when this task's _execute_task started; assigned_during
\* is history: the tasks that were in_progress when this task was assigned;
\* memory tells whether _store_task_completion_in_memory was called and is over
NoExec ==
  [pc |-> "none", start_time |-> 0, outcome |-> "none", started_during |-> {},
   assigned_during |-> {}, memory |-> "none"]

SchedSleeping == [pc |-> "sleep", cursor |-> Null, held |-> Null]

SelOff == [stage |-> "off"]

\* the coordinator after __init__ and _load_state on an empty database
InitCoordinator ==
  /\ agents = [i \in AgentIndex |-> NewAgent(Registry[i])]
  /\ tasks = <<>>
  /\ collaborations = <<>>
  /\ task_queues = [p \in TaskPriority |-> <<>>]
  /\ db_tasks = <<>>
  /\ db_agents = [i \in AgentIndex |-> NewAgent(Registry[i])]
  /\ performance_metrics = <<>>
  /\ submitted = {}
  /\ sched = SchedSleeping
  /\ exec = <<>>
  /\ now = 1
  /\ duckbot_ai \in BOOLEAN
  /\ memento_available \in BOOLEAN
  /\ status_log = <<>>
  /\ tick_popped = <<>>
  /\ requeued = {}
  /\ db_faults = 0

Init ==
  /\ InitCoordinator
  /\ sel = SelOff

\* time.time() returns clock: no less than its last value
ReadClock(clock) ==
  /\ clock \in now .. MaxTime
  /\ now' = clock

\* A step in which `raised` database calls raise; at most MaxDbFaults calls
\* raise in one run.
DbCalls(raised) ==
  /\ db_faults' = db_faults + raised
  /\ db_faults' <= MaxDbFaults

\* the number of raising calls among the INSERT of
\* _update_agent_performance and the two saves of the finally block, where a
\* raising _save_task skips _save_agent
FinishFaults(metric_saved, task_saved, agent_saved) ==
  (IF metric_saved THEN 0 ELSE 1) + (IF task_saved /\ agent_saved THEN 0 ELSE 1)

\* The scheduler is between two suspension points: no other coroutine runs.
SchedulerRunning == sched.pc = "scan"

\* SubmitTask with a valid priority and context: the task is stored; its
\* _save_task and queue.put are created as jobs of the event loop.
SubmitTask(input) ==
  /\ ~SchedulerRunning
  /\ Len(tasks) < MaxTasks
  /\ LET id == Len(tasks) + 1
     IN /\ tasks' = Append(tasks, NewTask(id, input))
        /\ db_tasks' = Append(db_tasks, NotSaved)
        /\ exec' = Append(exec, NoExec)
        /\ status_log' = Append(status_log, <<"pending">>)
        /\ submitted' = submitted \cup {id}
  /\ UNCHANGED <<agents, collaborations, task_queues, db_agents, performance_metrics,
                 sched, now, duckbot_ai, memento_available, tick_popped, requeued, db_faults, sel>>

\* mutant: the task is put into the MEDIUM queue whatever its priority
RunSubmitJobsOneQueue(t, save_ok) ==
  /\ ~SchedulerRunning
  /\ t \in submitted
  /\ DbCalls(IF save_ok THEN 0 ELSE 1)
  /\ submitted' = submitted \ {t}
  /\ db_tasks' = IF save_ok THEN [db_tasks EXCEPT ![t] = tasks[t]] ELSE db_tasks
  /\ task_queues' = [task_queues EXCEPT ![MEDIUM] = Append(@, t)]
  /\ UNCHANGED <<store, db_agents, performance_metrics, sched, exec, now, duckbot_ai,
                 memento_available,
                 status_log, tick_popped, requeued, sel>>

\* The two jobs SubmitTask created run back to back in the loop's next
\* iteration: _save_task(task), which may raise inside its own job, then
\* task_queues[task.priority].put(task).
RunSubmitJobs(t, save_ok) ==
  /\ ~SchedulerRunning
  /\ t \in submitted
  /\ DbCalls(IF save_ok THEN 0 ELSE 1)
  /\ submitted' = submitted \ {t}
  /\ db_tasks' = IF save_ok THEN [db_tasks EXCEPT ![t] = tasks[t]] ELSE db_tasks
  /\ task_queues' = [task_queues EXCEPT ![tasks[t].priority] = Append(@, t)]
  /\ UNCHANGED <<store, db_agents, performance_metrics, sched, exec, now, duckbot_ai,
                 memento_available,
                 status_log, tick_popped, requeued, sel>>

\* ------------------------------------------------------- the scheduler
\* _scheduler_loop wakes from asyncio.sleep(5) (or sleep(10) after an error)
\* and starts a tick: the scan of the queues in PriorityScanOrder.
\* sched.cursor is the position in PriorityScanOrder handled last.
SchedWake ==
  /\ sched.pc = "sleep"
  /\ sched' = [pc |-> "scan", cursor |-> 0, held |-> Null]
  /\ tick_popped' = <<>>
  /\ UNCHANGED <<store, task_queues, tables, submitted, exec, now, duckbot_ai, memento_available,
                 status_log, requeued, db_faults, sel>>

\* positions of the scan still ahead whose queue is not empty
NonEmptyAhead ==
  {k \in DOMAIN PriorityScanOrder :
     k > sched.cursor /\ task_queues[PriorityScanOrder[k]] # <<>>}

\* the next position at which the for loop pops a task
NextPosition == CHOOSE k \in NonEmptyAhead : \A j \in NonEmptyAhead : k <= j

\* the task the for loop pops next: task = await queue.get()
NextTask == Head(task_queues[PriorityScanOrder[NextPosition]])

\* mutant: the task is read and left in its queue
PoppedLeavesTask == task_queues

\* the queues after that pop
Popped == [task_queues EXCEPT ![PriorityScanOrder[NextPosition]] = Tail(@)]

\* the for loop is over (the remaining queues are empty); _check_task_timeouts
\* and _rebalance_loads do nothing; the loop sleeps
SchedEndTick ==
  /\ sched.pc = "scan"
  /\ NonEmptyAhead = {}
  /\ sched' = SchedSleeping
  /\ tick_popped' = <<>>
  /\ UNCHANGED <<store, task_queues, tables, submitted, exec, now, duckbot_ai, memento_available,
                 status_log, requeued, db_faults, sel>>

\* the in-memory part of _assign_task_to_agent
AssignedTask(task, a) == [task EXCEPT !.assigned_agent = a, !.status = "assigned"]

\* mutant: the agent is left idle
AssignedAgentStaysIdle(agent, t) ==
  [agent EXCEPT !.current_task = t, !.load_factor = AssignLoad(agent.load_factor)]

AssignedAgent(agent, t) ==
  [agent EXCEPT !.current_task = t, !.status = "assigned",
                !.load_factor = AssignLoad(agent.load_factor)]

\* a task is popped, _process_task_assignment finds an agent,
\* _assign_task_to_agent succeeds and _execute_task is launched
SchedAssign(clock) ==
  /\ sched.pc = "scan"
  /\ NonEmptyAhead # {}
  /\ ReadClock(clock)
  /\ LET t == NextTask
         a == select_best_agent(agents, tasks[t], clock)
     IN /\ a # Null
        /\ task_queues' = Popped
        /\ tasks' = [tasks EXCEPT ![t] = AssignedTask(tasks[t], a)]
        /\ agents' = [agents EXCEPT ![a] = AssignedAgent(agents[a], t)]
        /\ db_tasks' = [db_tasks EXCEPT ![t] = tasks'[t]]
        /\ db_agents' = [db_agents EXCEPT ![a] = agents'[a]]
        /\ exec' = [exec EXCEPT ![t] =
                      [@ EXCEPT !.pc = "launched",
                                !.assigned_during =
                                  {u \in TaskIds : tasks[u].status = "in_progress"}]]
        /\ status_log' = [status_log EXCEPT ![t] = Append(@, "assigned")]
        /\ sched' = [sched EXCEPT !.cursor = NextPosition]
        /\ tick_popped' = Append(tick_popped, PriorityScanOrder[NextPosition])
  /\ UNCHANGED <<collaborations, performance_metrics, submitted, duckbot_ai,
                 memento_available, requeued,
                 db_faults, sel>>

\* mutant: the execution is launched although the assignment raised
SchedAssignErrorLaunches(clock, task_saved, failed_saved) ==
  /\ sched.pc = "scan"
  /\ NonEmptyAhead # {}
  /\ ReadClock(clock)
  /\ DbCalls(IF failed_saved THEN 1 ELSE 2)
  /\ LET t == NextTask
         a == select_best_agent(agents, tasks[t], clock)
         assigned == AssignedTask(tasks[t], a)
         failed == [assigned EXCEPT !.status = "failed", !.error_message = "database error"]
     IN /\ a # Null
        /\ task_queues' = Popped
        /\ tasks' = [tasks EXCEPT ![t] = failed]
        /\ agents' = [agents EXCEPT ![a] = AssignedAgent(agents[a], t)]
        /\ db_tasks' = IF failed_saved THEN [db_tasks EXCEPT ![t] = failed]
                       ELSE IF task_saved THEN [db_tasks EXCEPT ![t] = assigned]
                       ELSE db_tasks
        /\ exec' = [exec EXCEPT ![t] = [@ EXCEPT !.pc = "launched"]]
        /\ status_log' = [status_log EXCEPT ![t] = @ \o <<"assigned", "failed">>]
        /\ sched' = IF failed_saved THEN [sched EXCEPT !.cursor = NextPosition]
                    ELSE SchedSleeping
        /\ tick_popped' = Append(tick_popped, PriorityScanOrder[NextPosition])
  /\ UNCHANGED <<collaborations, db_agents, performance_metrics, submitted,
                 duckbot_ai, memento_available, requeued, sel>>

\* as SchedAssign, but _save_task (task_saved = FALSE) or _save_agent
\* (task_saved = TRUE) raises inside _assign_task_to_agent: the handler of
\* _process_task_assignment marks the task failed and saves it; if that save
\* raises too (failed_saved = FALSE) the exception reaches _scheduler_loop,
\* which gives up the tick and sleeps.  _execute_task is not launched.
SchedAssignError(clock, task_saved, failed_saved) ==
  /\ sched.pc = "scan"
  /\ NonEmptyAhead # {}
  /\ ReadClock(clock)
  /\ DbCalls(IF failed_saved THEN 1 ELSE 2)
  /\ LET t == NextTask
         a == select_best_agent(agents, tasks[t], clock)
         assigned == AssignedTask(tasks[t], a)
         failed == [assigned EXCEPT !.status = "failed", !.error_message = "database error"]
     IN /\ a # Null
        /\ task_queues' = Popped
        /\ tasks' = [tasks EXCEPT ![t] = failed]
        /\ agents' = [agents EXCEPT ![a] = AssignedAgent(agents[a], t)]
        /\ db_tasks' = IF failed_saved THEN [db_tasks EXCEPT ![t] = failed]
                       ELSE IF task_saved THEN [db_tasks EXCEPT ![t] = assigned]
                       ELSE db_tasks
        /\ status_log' = [status_log EXCEPT ![t] = @ \o <<"assigned", "failed">>]
        /\ sched' = IF failed_saved THEN [sched EXCEPT !.cursor = NextPosition]
                    ELSE SchedSleeping
        /\ tick_popped' = Append(tick_popped, PriorityScanOrder[NextPosition])
  /\ UNCHANGED <<collaborations, db_agents, performance_metrics, submitted, exec,
                 duckbot_ai, memento_available, requeued, sel>>

\* a task is popped and _select_best_agent returns None:
\* _process_task_assignment sleeps 30 s holding the task
SchedNoAgent ==
  /\ sched.pc = "scan"
  /\ NonEmptyAhead # {}
  /\ select_best_agent(agents, tasks[NextTask], now) = Null
  /\ task_queues' = Popped
  /\ sched' = [pc |-> "backoff", cursor |-> NextPosition, held |-> NextTask]
  /\ tick_popped' = Append(tick_popped, PriorityScanOrder[NextPosition])
  /\ UNCHANGED <<store, tables, submitted, exec, now, duckbot_ai,
                 memento_available, status_log, requeued,
                 db_faults, sel>>

\* mutant: the held task is put back at the head of its queue
SchedRequeueAtHead ==
  /\ sched.pc = "backoff"
  /\ task_queues' = [task_queues EXCEPT ![tasks[sched.held].priority] = <<sched.held>> \o @]
  /\ requeued' = requeued \cup {sched.held}
  /\ sched' = [sched EXCEPT !.pc = "scan", !.held = Null]
  /\ UNCHANGED <<store, tables, submitted, exec, now, duckbot_ai, memento_available, status_log,
                 tick_popped, db_faults, sel>>

\* mutant: the held task is dropped when the sleep(30) is over
SchedRequeueDrops ==
  /\ sched.pc = "backoff"
  /\ requeued' = requeued \cup {sched.held}
  /\ sched' = [sched EXCEPT !.pc = "scan", !.held = Null]
  /\ UNCHANGED <<store, task_queues, tables, submitted, exec, now, duckbot_ai,
                 memento_available, status_log,
                 tick_popped, db_faults, sel>>

\* the sleep(30) is over: the held task is put back into the queue of its
\* priority and the scan goes on
SchedRequeue ==
  /\ sched.pc = "backoff"
  /\ task_queues' = [task_queues EXCEPT ![tasks[sched.held].priority] = Append(@, sched.held)]
  /\ requeued' = requeued \cup {sched.held}
  /\ sched' = [sched EXCEPT !.pc = "scan", !.held = Null]
  /\ UNCHANGED <<store, tables, submitted, exec, now, duckbot_ai, memento_available, status_log,
                 tick_popped, db_faults, sel>>

\* ------------------------------------------------------ task execution
\* end_time - start_time; two reads of time.time() are never equal, so an
\* elapsed time is at least one tick
Elapsed(start_time, end_time) == Max(1, end_time - start_time)

\* what _execute_single_agent_task returns
SingleAgentResult(outcome) ==
  CASE outcome = "unavailable" ->
         [kind |-> "dict", success |-> "absent", error |-> "DuckBot AI not available",
          execution_type |-> ""]
    [] outcome = "success" ->
         [kind |-> "dict", success |-> "true", error |-> "",
          execution_type |-> "single_agent"]
    [] outcome = "failure" ->
         [kind |-> "dict", success |-> "false", error |-> "reported", execution_type |-> ""]
    [] outcome = "raises" ->
         [kind |-> "dict", success |-> "false", error |-> "raised", execution_type |-> ""]

\* what the handler of _execute_collaborative_task returns
CollaborativeError ==
  [kind |-> "dict", success |-> "false", error |-> "not JSON serializable",
   execution_type |-> "collaborative"]

\* the exception a raising database helper carries
DatabaseError ==
  [kind |-> "exception", success |-> "absent", error |-> "database error",
   execution_type |-> ""]

\* The state as the try block of _execute_task leaves it after its first
\* statements (status, last_active, the two saves): a record of the
\* variables that block writes.  first_saved, second_saved: _save_task and
\* _save_agent succeed.
Started(t, clock, first_saved, second_saved) ==
  LET a == tasks[t].assigned_agent
      task == [tasks[t] EXCEPT !.status = "in_progress"]
      agent == [agents[a] EXCEPT !.status = "working", !.last_active = clock]
  IN [tasks |-> [tasks EXCEPT ![t] = task],
      agents |-> [agents EXCEPT ![a] = agent],
      db_tasks |-> IF first_saved THEN [db_tasks EXCEPT ![t] = task] ELSE db_tasks,
      db_agents |-> IF first_saved /\ second_saved THEN [db_agents EXCEPT ![a] = agent]
                    ELSE db_agents,
      status_log |-> [status_log EXCEPT ![t] = Append(@, "in_progress")],
      start_time |-> clock,
      started_during |-> {u \in TaskIds : exec[u].pc = "awaiting"}]

\* The state in which a suspended _execute_task resumes.
Resumed(t) ==
  [tasks |-> tasks, agents |-> agents, db_tasks |-> db_tasks, db_agents |-> db_agents,
   status_log |-> status_log, start_time |-> exec[t].start_time,
   started_during |-> exec[t].started_during]

\* mutant: the metric has value 1 whatever the outcome
TaskCompletionMetricOfSuccess(a, t, success) ==
  [agent_id |-> a, task_id |-> t, metric_type |-> "task_completion", value |-> 1]

\* the row _update_agent_performance inserts into performance_metrics
TaskCompletionMetric(a, t, success) ==
  [agent_id |-> a, task_id |-> t, metric_type |-> "task_completion",
   value |-> IF success THEN 1 ELSE 0]

\* mutant: the finally block cleans up every agent that is working
FinishExecutionCleansAll(t, mid, clock, completed, res, outcome, metric_saved, task_saved, agent_saved) ==
  LET a == mid.tasks[t].assigned_agent
      duration == Elapsed(mid.start_time, clock)
      task_done == IF completed
                   THEN [mid.tasks[t] EXCEPT !.actual_duration = duration,
                                             !.status = "completed", !.result = res]
                   ELSE [mid.tasks[t] EXCEPT !.actual_duration = duration,
                                             !.status = "failed", !.error_message = res.error]
      agent_done == CleanupAgent(update_agent_performance(mid.agents[a], duration, completed))
      metric == TaskCompletionMetric(a, t, completed)
  IN /\ tasks' = [mid.tasks EXCEPT ![t] = task_done]
     /\ agents' = [b \in AgentIndex |->
                     IF b = a THEN agent_done
                     ELSE IF mid.agents[b].status = "working" THEN CleanupAgent(mid.agents[b])
                     ELSE mid.agents[b]]
     /\ performance_metrics' = IF metric_saved THEN Append(performance_metrics, metric)
                               ELSE performance_metrics
     /\ db_tasks' = IF task_saved THEN [mid.db_tasks EXCEPT ![t] = task_done] ELSE mid.db_tasks
     /\ db_agents' = IF task_saved /\ agent_saved THEN [mid.db_agents EXCEPT ![a] = agent_done]
                     ELSE mid.db_agents
     /\ exec' = [exec EXCEPT ![t] = [pc |-> "done", start_time |-> mid.start_time,
                                    outcome |-> outcome,
                                    started_during |-> mid.started_during,
                                    assigned_during |-> exec[t].assigned_during,
                                    memory |-> IF memento_available /\ task_saved /\ agent_saved
                                               THEN "storing" ELSE "none"]]
     /\ status_log' = [mid.status_log EXCEPT ![t] =
                         Append(@, IF completed THEN "completed" ELSE "failed")]

\* The rest of _execute_task from state `mid` on, once the result is there
\* (completed = TRUE) or an exception reached its handler (completed =
\* FALSE): duration, _update_agent_performance, the final status, and the
\* finally block.  metric_saved: the INSERT of _update_agent_performance
\* succeeds; task_saved, agent_saved: _save_task and _save_agent of the
\* finally block succeed (a raising _save_task skips _save_agent).  After
\* the two saves _store_task_completion_in_memory is called if
\* self.memento_available, and the coroutine suspends in the memory request.
FinishExecution(t, mid, clock, completed, res, outcome, metric_saved, task_saved, agent_saved) ==
  LET a == mid.tasks[t].assigned_agent
      duration == Elapsed(mid.start_time, clock)
      task_done == IF completed
                   THEN [mid.tasks[t] EXCEPT !.actual_duration = duration,
                                             !.status = "completed", !.result = res]
                   ELSE [mid.tasks[t] EXCEPT !.actual_duration = duration,
                                             !.status = "failed", !.error_message = res.error]
      agent_done == CleanupAgent(update_agent_performance(mid.agents[a], duration, completed))
      metric == TaskCompletionMetric(a, t, completed)
  IN /\ tasks' = [mid.tasks EXCEPT ![t] = task_done]
     /\ agents' = [mid.agents EXCEPT ![a] = agent_done]
     /\ performance_metrics' = IF metric_saved THEN Append(performance_metrics, metric)
                               ELSE performance_metrics
     /\ db_tasks' = IF task_saved THEN [mid.db_tasks EXCEPT ![t] = task_done] ELSE mid.db_tasks
     /\ db_agents' = IF task_saved /\ agent_saved THEN [mid.db_agents EXCEPT ![a] = agent_done]
                     ELSE mid.db_agents
     /\ exec' = [exec EXCEPT ![t] = [pc |-> "done", start_time |-> mid.start_time,
                                    outcome |-> outcome,
                                    started_during |-> mid.started_during,
                                    assigned_during |-> exec[t].assigned_during,
                                    memory |-> IF memento_available /\ task_saved /\ agent_saved
                                               THEN "storing" ELSE "none"]]
     /\ status_log' = [mid.status_log EXCEPT ![t] =
                         Append(@, IF completed THEN "completed" ELSE "failed")]

\* _execute_task starts, both saves succeed, the task needs one agent and
\* the execution capability is called: the coroutine suspends in
\* duckbot_ai.enhanced_request
ExecStartSingle(t, clock) ==
  /\ ~SchedulerRunning
  /\ t \in TaskIds /\ exec[t].pc = "launched"
  /\ ~task_requires_collaboration(tasks[t])
  /\ duckbot_ai
  /\ ReadClock(clock)
  /\ LET mid == Started(t, clock, TRUE, TRUE)
     IN /\ tasks' = mid.tasks
        /\ agents' = mid.agents
        /\ db_tasks' = mid.db_tasks
        /\ db_agents' = mid.db_agents
        /\ status_log' = mid.status_log
        /\ exec' = [exec EXCEPT ![t] = [@ EXCEPT !.pc = "awaiting", !.start_time = clock,
                                                 !.started_during = mid.started_during]]
  /\ UNCHANGED <<collaborations, task_queues, performance_metrics, submitted, sched,
                 duckbot_ai, memento_available, tick_popped, requeued, db_faults, sel>>

\* as ExecStartSingle without an execution capability:
\* _execute_single_agent_task returns {"error": ...} at once and _execute_task
\* runs to its end without suspending
ExecStartUnavailable(t, clock, metric_saved, task_saved, agent_saved) ==
  /\ ~SchedulerRunning
  /\ t \in TaskIds /\ exec[t].pc = "launched"
  /\ ~task_requires_collaboration(tasks[t])
  /\ ~duckbot_ai
  /\ DbCalls(FinishFaults(metric_saved, task_saved, agent_saved))
  /\ ReadClock(clock)
  /\ FinishExecution(t, Started(t, clock, TRUE, TRUE), clock, TRUE,
                     SingleAgentResult("unavailable"), "unavailable",
                     metric_saved, task_saved, agent_saved)
  /\ UNCHANGED <<collaborations, task_queues, submitted, sched, duckbot_ai,
                 memento_available, tick_popped,
                 requeued, sel>>

\* _execute_task starts, both saves succeed and the task requires
\* collaboration: _execute_collaborative_task stores the Collaboration, and
\* _save_collaboration raises on json.dumps(shared_context), whose
\* original_task holds the TaskPriority and TaskStatus members; the handler
\* returns an error dict and _execute_task runs to its end without suspending
ExecStartCollaborative(t, clock, metric_saved, task_saved, agent_saved) ==
  /\ ~SchedulerRunning
  /\ t \in TaskIds /\ exec[t].pc = "launched"
  /\ task_requires_collaboration(tasks[t])
  /\ DbCalls(FinishFaults(metric_saved, task_saved, agent_saved))
  /\ ReadClock(clock)
  /\ LET mid == Started(t, clock, TRUE, TRUE)
     IN /\ collaborations' = Append(collaborations,
                               NewCollaboration(mid.agents, mid.tasks[t], tasks[t].assigned_agent))
        /\ FinishExecution(t, mid, clock, TRUE, CollaborativeError, "collaboration error",
                           metric_saved, task_saved, agent_saved)
  /\ UNCHANGED <<task_queues, submitted, sched, duckbot_ai,
                 memento_available, tick_popped, requeued, sel>>

\* _execute_task starts and _save_task (first_saved = FALSE) or _save_agent
\* (first_saved = TRUE) of the try block raises: the handler marks the task
\* failed, and the finally block runs
ExecStartError(t, clock, first_saved, metric_saved, task_saved, agent_saved) ==
  /\ ~SchedulerRunning
  /\ t \in TaskIds /\ exec[t].pc = "launched"
  /\ ReadClock(clock)
  /\ DbCalls(1 + FinishFaults(metric_saved, task_saved, agent_saved))
  /\ FinishExecution(t, Started(t, clock, first_saved, FALSE), clock, FALSE, DatabaseError,
                     "database error", metric_saved, task_saved, agent_saved)
  /\ UNCHANGED <<collaborations, task_queues, submitted, sched, duckbot_ai,
                 memento_available, tick_popped,
                 requeued, sel>>

ExecutionOutcomes == {"success", "failure", "raises"}

\* mutant: a request that raises ends the coroutine where it stands
ExecFinishSingleUncaught(t, clock, outcome, metric_saved, task_saved, agent_saved) ==
  IF outcome = "raises"
  THEN /\ ~SchedulerRunning
       /\ t \in TaskIds /\ exec[t].pc = "awaiting"
       /\ exec' = [exec EXCEPT ![t] = [@ EXCEPT !.pc = "done", !.outcome = outcome]]
       /\ UNCHANGED <<store, task_queues, tables, submitted, sched, now, duckbot_ai,
                      memento_available, status_log, tick_popped, requeued, db_faults, sel>>
  ELSE /\ ~SchedulerRunning
       /\ t \in TaskIds /\ exec[t].pc = "awaiting"
       /\ DbCalls(FinishFaults(metric_saved, task_saved, agent_saved))
       /\ ReadClock(clock)
       /\ FinishExecution(t, Resumed(t), clock, TRUE, SingleAgentResult(outcome), outcome,
                          metric_saved, task_saved, agent_saved)
       /\ UNCHANGED <<collaborations, task_queues, submitted, sched, duckbot_ai,
                      memento_available, tick_popped,
                      requeued, sel>>

\* the execution capability returns to a suspended single-agent task:
\* outcome is "success", "failure" (success = false) or "raises"; either way
\* _execute_single_agent_task returns a dict and _execute_task completes
ExecFinishSingle(t, clock, outcome, metric_saved, task_saved, agent_saved) ==
  /\ ~SchedulerRunning
  /\ t \in TaskIds /\ exec[t].pc = "awaiting"
  /\ DbCalls(FinishFaults(metric_saved, task_saved, agent_saved))
  /\ ReadClock(clock)
  /\ FinishExecution(t, Resumed(t), clock, TRUE, SingleAgentResult(outcome), outcome,
                     metric_saved, task_saved, agent_saved)
  /\ UNCHANGED <<collaborations, task_queues, submitted, sched, duckbot_ai,
                 memento_available, tick_popped,
                 requeued, sel>>

MemoryOutcomes == {"success", "failure", "raises"}

\* mutant: a memory request that raises fails the task
MemoryReturnsFailsTask(t, outcome) ==
  /\ ~SchedulerRunning
  /\ t \in TaskIds /\ exec[t].pc = "done" /\ exec[t].memory = "storing"
  /\ exec' = [exec EXCEPT ![t] = [@ EXCEPT !.memory = "returned"]]
  /\ tasks' = IF outcome = "raises" THEN [tasks EXCEPT ![t] = [@ EXCEPT !.status = "failed"]]
              ELSE tasks
  /\ UNCHANGED <<agents, collaborations, task_queues, tables, submitted, sched, now,
                 duckbot_ai, memento_available, status_log, tick_popped, requeued, db_faults, sel>>

\* the memory request of _store_task_completion_in_memory returns success,
\* returns failure or raises: the first is logged at debug level, the last as
\* an error, and _execute_task is over
MemoryReturns(t, outcome) ==
  /\ ~SchedulerRunning
  /\ t \in TaskIds /\ exec[t].pc = "done" /\ exec[t].memory = "storing"
  /\ exec' = [exec EXCEPT ![t] = [@ EXCEPT !.memory = "returned"]]
  /\ UNCHANGED <<store, task_queues, tables, submitted, sched, now, duckbot_ai,
                 memento_available, status_log, tick_popped, requeued, db_faults, sel>>

Clock == now .. MaxTime

Next ==
  \/ \E input \in TaskInputs : SubmitTask(input)
  \/ \E t \in submitted, save_ok \in BOOLEAN : RunSubmitJobs(t, save_ok)
  \/ SchedWake
  \/ SchedEndTick
  \/ \E clock \in Clock : SchedAssign(clock)
  \/ \E clock \in Clock, task_saved, failed_saved \in BOOLEAN :
       SchedAssignError(clock, task_saved, failed_saved)
  \/ SchedNoAgent
  \/ SchedRequeue
  \/ \E t \in TaskIds, clock \in Clock : ExecStartSingle(t, clock)
  \/ \E t \in TaskIds, clock \in Clock, m, s1, s2 \in BOOLEAN :
       ExecStartUnavailable(t, clock, m, s1, s2)
  \/ \E t \in TaskIds, clock \in Clock, m, s1, s2 \in BOOLEAN :
       ExecStartCollaborative(t, clock, m, s1, s2)
  \/ \E t \in TaskIds, clock \in Clock, f, m, s1, s2 \in BOOLEAN :
       ExecStartError(t, clock, f, m, s1, s2)
  \/ \E t \in TaskIds, clock \in Clock, o \in ExecutionOutcomes, m, s1, s2 \in BOOLEAN :
       ExecFinishSingle(t, clock, o, m, s1, s2)
  \/ \E t \in TaskIds, o \in MemoryOutcomes : MemoryReturns(t, o)

Spec == Init /\ [][Next]_vars

\* ------------------------------------------- the coordinator, scheduled fairly
\* the steps of the _execute_task coroutine of task t, up to the final status
ExecutionStep(t) ==
  \/ \E clock \in Clock : ExecStartSingle(t, clock)
  \/ \E clock \in Clock, m, s1, s2 \in BOOLEAN : ExecStartUnavailable(t, clock, m, s1, s2)
  \/ \E clock \in Clock, m, s1, s2 \in BOOLEAN : ExecStartCollaborative(t, clock, m, s1, s2)
  \/ \E clock \in Clock, f, m, s1, s2 \in BOOLEAN : ExecStartError(t, clock, f, m, s1, s2)
  \/ \E clock \in Clock, o \in ExecutionOutcomes, m, s1, s2 \in BOOLEAN :
       ExecFinishSingle(t, clock, o, m, s1, s2)

\* the development tasks of TaskInputs: for one agent, for a collaboration,
\* and one no agent can handle
FairTaskInputs == {input \in TaskInputs : input.task_type = "development"}

\* the coordinator without memory capability: self.memento_available is
\* False unless _init_duckbot_integrations finds one
FairInit == Init /\ ~memento_available

\* Next without the memory request and with the tasks of FairTaskInputs
FairNext ==
  \/ \E input \in FairTaskInputs : SubmitTask(input)
  \/ \E t \in submitted, save_ok \in BOOLEAN : RunSubmitJobs(t, save_ok)
  \/ SchedWake
  \/ SchedEndTick
  \/ \E clock \in Clock : SchedAssign(clock)
  \/ \E clock \in Clock, task_saved, failed_saved \in BOOLEAN :
       SchedAssignError(clock, task_saved, failed_saved)
  \/ SchedNoAgent
  \/ SchedRequeue
  \/ \E t \in TaskIds, clock \in Clock : ExecStartSingle(t, clock)
  \/ \E t \in TaskIds, clock \in Clock, m, s1, s2 \in BOOLEAN :
       ExecStartUnavailable(t, clock, m, s1, s2)
  \/ \E t \in TaskIds, clock \in Clock, m, s1, s2 \in BOOLEAN :
       ExecStartCollaborative(t, clock, m, s1, s2)
  \/ \E t \in TaskIds, clock \in Clock, f, m, s1, s2 \in BOOLEAN :
       ExecStartError(t, clock, f, m, s1, s2)
  \/ \E t \in TaskIds, clock \in Clock, o \in ExecutionOutcomes, m, s1, s2 \in BOOLEAN :
       ExecFinishSingle(t, clock, o, m, s1, s2)

\* What the event loop guarantees.  A scan is one run of the scheduler
\* coroutine between two suspensions and comes to its end; the sleeps of the
\* scheduler end (asyncio.sleep returns); the loop runs every job that is
\* ready, in the order in which they became ready, before a sleeper whose
\* time has come is resumed again: a launched _execute_task is started and
\* one whose request has returned is resumed, however often the scheduler
\* runs in between.  Every request of the execution capability returns.
Fairness ==
  /\ []<>(sched.pc # "scan")
  /\ WF_vars(SchedWake)
  /\ WF_vars(SchedRequeue)
  /\ \A t \in 1 .. MaxTasks : SF_vars(ExecutionStep(t))

FairSpec == FairInit /\ [][FairNext]_vars /\ Fairness

\* ------------------------------------------- the selector on drawn inputs
\* The dynamic fields the selector reads, as an agent can carry them after
\* _load_state: status and load_factor, success_rate, last_active (0, or the
\* time of the selection) and average_completion_time (none yet, or one tick).
AgentStates ==
  [status : {"idle", "working"}, load_factor : {0, LoadStep, LoadBalanceThreshold},
   success_rate : {Rat(1, 2), RatInt(1)}, recent : BOOLEAN,
   average_completion_time : {RatInt(0), RatInt(1)}]

SelAgentStates ==
  {st \in AgentStates :
     \/ st.status = "idle" /\ st.load_factor \in {0, LoadBalanceThreshold}
     \/ st.status = "working" /\ st.load_factor = LoadStep /\ st.recent}

WithState(agent, st, time_now) ==
  [agent EXCEPT !.status = st.status, !.load_factor = st.load_factor,
                !.success_rate = st.success_rate,
                !.last_active = IF st.recent THEN time_now ELSE 0,
                !.average_completion_time = st.average_completion_time]

SelTaskInputs ==
  TaskInputs \cup
  { [task_type |-> "research", priority |-> CRITICAL, description |-> ShortText,
     context |-> [NoContext EXCEPT !.specializations = {"academic_research", "python"}]],
    [task_type |-> "development", priority |-> MEDIUM, description |-> ShortText,
     context |-> [NoContext EXCEPT !.required_capabilities =
                    {"code_generation", "debugging", "web_search"}]],
    [task_type |-> "development", priority |-> MEDIUM, description |-> ShortText,
     context |-> [NoContext EXCEPT !.required_capabilities = {"code_generation"}]] }

SelInit ==
  /\ InitCoordinator
  /\ \E st \in [AgentIndex -> SelAgentStates], input \in SelTaskInputs :
       sel = [stage |-> "input",
              agents |-> [i \in AgentIndex |-> WithState(NewAgent(Registry[i]), st[i], now)],
              task |-> NewTask(1, input),
              time_now |-> now]

\* best_agent = await self._select_best_agent(task), with what
\* _agent_can_handle_task and _calculate_agent_score return for each agent
ApplySelector ==
  /\ sel.stage = "input"
  /\ sel' = [stage |-> "selected", agents |-> sel.agents, task |-> sel.task,
             time_now |-> sel.time_now,
             can_handle |-> [i \in AgentIndex |-> agent_can_handle_task(sel.agents[i], sel.task)],
             scores |-> [i \in AgentIndex |->
                           calculate_agent_score(sel.agents[i], sel.task, sel.time_now)],
             result |-> select_best_agent(sel.agents, sel.task, sel.time_now)]
  /\ UNCHANGED <<store, task_queues, tables, submitted, sched, exec, now, duckbot_ai,
                 memento_available,
                 status_log, tick_popped, requeued, db_faults>>

SelNext == ApplySelector

SelSpec == SelInit /\ [][SelNext]_vars

\* ----------------------------- _calculate_agent_score on drawn pairs
\* average_completion_time of an agent: none yet, 150 s, 600 s, one tick
ScoreAverages == {RatInt(0), Rat(150, ClockStep), Rat(600, ClockStep), RatInt(1)}

\* tasks by priority, required capabilities and specializations, the latter
\* overlapping those of development_expert in 0 to 4 places
ScoreTaskInputs ==
  { [task_type |-> "development", priority |-> p, description |-> ShortText,
     context |-> [NoContext EXCEPT !.required_capabilities = caps, !.specializations = specs]] :
    p \in {MEDIUM, HIGH, EMERGENCY},
    caps \in { {}, {"code_generation", "debugging", "web_search"} },
    specs \in { {}, {"pandas"}, {"python", "academic_research"},
                {"python", "javascript", "web_development"},
                {"python", "javascript", "system_programming", "web_development"} } }

ScoreInit ==
  /\ InitCoordinator
  /\ \E i \in AgentIndex, st \in AgentStates, avg \in ScoreAverages, input \in ScoreTaskInputs :
       sel = [stage |-> "pair",
              agent |-> [WithState(NewAgent(Registry[i]), st, now) EXCEPT
                           !.average_completion_time = avg],
              task |-> NewTask(1, input),
              time_now |-> now]

\* score = await self._calculate_agent_score(agent, task)
ApplyScore ==
  /\ sel.stage = "pair"
  /\ sel' = [stage |-> "scored", agent |-> sel.agent, task |-> sel.task,
             time_now |-> sel.time_now,
             score |-> calculate_agent_score(sel.agent, sel.task, sel.time_now)]
  /\ UNCHANGED <<store, task_queues, tables, submitted, sched, exec, now, duckbot_ai,
                 memento_available,
                 status_log, tick_popped, requeued, db_faults>>

ScoreNext == ApplyScore

ScoreSpec == ScoreInit /\ [][ScoreNext]_vars

\* ------------------------------- the routing of _execute_task on drawn tasks
\* Tasks over the values the five complexity indicators look at: the length
\* of the description and whether it holds the keyword, estimated_subtasks,
\* the number of required capabilities, and the priority.
RouteTaskInputs ==
  [task_type : {"development"}, priority : TaskPriority,
   description : [length : {40, 501}, mentions_collaboration : BOOLEAN],
   context : [required_capabilities : {{}, {"code_generation", "debugging", "testing"},
                                       {"code_generation", "debugging", "testing", "web_search"}},
              specializations : {{}},
              estimated_subtasks : {0, 3, 4}]]

RouteInit ==
  /\ InitCoordinator
  /\ \E input \in RouteTaskInputs : sel = [stage |-> "task", task |-> NewTask(1, input)]

\* if await self._task_requires_collaboration(task): _execute_collaborative_task
\* else: _execute_single_agent_task
RouteTask ==
  /\ sel.stage = "task"
  /\ sel' = [stage |-> "routed", task |-> sel.task,
             route |-> IF task_requires_collaboration(sel.task) THEN "collaborative"
                       ELSE "single_agent"]
  /\ UNCHANGED <<store, task_queues, tables, submitted, sched, exec, now, duckbot_ai,
                 memento_available,
                 status_log, tick_popped, requeued, db_faults>>

RouteNext == RouteTask

RouteSpec == RouteInit /\ [][RouteNext]_vars

\* ------------------- _execute_hierarchical_collaboration on drawn inputs
\* Collaborative tasks: with no required capability, with two and with four
HierTaskInputs ==
  { [task_type |-> "development", priority |-> HIGH,
     description |-> [length |-> 60, mentions_collaboration |-> TRUE],
     context |-> [NoContext EXCEPT !.required_capabilities = caps]] :
    caps \in { {}, {"code_generation", "web_search"},
               {"code_generation", "debugging", "web_search", "task_decomposition"} } }

\* what a call of duckbot_ai.enhanced_request can do; it raises for one
\* when there is no execution capability (self.duckbot_ai is None)
RequestOutcomes == {"success", "failure", "raises"}

\* no other task has been assigned
NoOther == [task_id |-> Null, assigned_agent |-> Null, status |-> "pending"]

\* _execute_hierarchical_collaboration is called with the Collaboration that
\* _execute_collaborative_task builds for a task and its primary agent, and
\* with the agents it selected; the outcomes of the requests to come are drawn.
\* sel.agents is self.agents during the call: _assign_task_to_agent and
\* _execute_task have set the primary agent to work on the task, and the
\* agents selected for the collaboration are as they were.
HierInit ==
  /\ InitCoordinator
  /\ \E input \in HierTaskInputs, primary \in AgentIndex :
       LET task == NewTask(1, input)
           collaboration == NewCollaboration(agents, task, primary)
           additional == Tail(collaboration.participating_agents)
       IN /\ IsAvailable(agents[primary], task)
          /\ \E d, g \in RequestOutcomes, s \in [DOMAIN additional -> RequestOutcomes] :
               sel = [stage |-> "decomposition", task |-> task,
                      collaboration |-> collaboration,
                      agents |-> [agents EXCEPT ![primary] =
                                    [AssignedAgent(@, 1) EXCEPT !.status = "working",
                                                               !.last_active = now]],
                      other |-> NoOther,
                      decomposition |-> d, subtasks |-> s, integration |-> g,
                      requests |-> <<>>, request_agents |-> <<>>,
                      pending |-> {}, returned |-> <<>>, subtask_results |-> <<>>,
                      integration_input |-> <<>>, result |-> NoResult]

\* the error dict of the handler of _execute_hierarchical_collaboration
HierarchicalError(error) ==
  [kind |-> "dict", success |-> "false", error |-> error,
   execution_type |-> "hierarchical_collaboration"]

\* Phase 1: the request for the decomposition returns or raises
HierDecompose ==
  /\ sel.stage = "decomposition"
  /\ sel' = [sel EXCEPT
       !.requests = Append(@, "decomposition"),
       !.request_agents = Append(@, sel.collaboration.primary_agent),
       !.stage = IF sel.decomposition = "success" THEN "subtasks" ELSE "returned",
       !.result = CASE sel.decomposition = "success" -> @
                    [] sel.decomposition = "failure" ->
                         [kind |-> "dict", success |-> "false",
                          error |-> "Task decomposition failed", execution_type |-> ""]
                    [] sel.decomposition = "raises" -> HierarchicalError("raised")]
  /\ UNCHANGED <<store, task_queues, tables, submitted, sched, exec, now, duckbot_ai,
                 memento_available,
                 status_log, tick_popped, requeued, db_faults>>

\* what _execute_subtask returns: the dict of the request, or its own error
\* dict when the request raises
SubtaskResult(outcome) ==
  CASE outcome = "success" -> [success |-> "true", error |-> ""]
    [] outcome = "failure" -> [success |-> "false", error |-> "reported"]
    [] outcome = "raises" -> [success |-> "false", error |-> "raised"]

\* the place of a subtask whose request has not returned
NotReturned == [success |-> "absent", error |-> ""]

\* Phase 2: _parse_subtasks gives one subtask per additional agent;
\* asyncio.gather starts _execute_subtask for each pair of zip(subtasks,
\* agents[1:]), in order, and each suspends in its request
HierStartSubtasks ==
  /\ sel.stage = "subtasks"
  /\ sel' = [sel EXCEPT
       !.requests = @ \o [i \in DOMAIN sel.subtasks |-> "subtask"],
       !.request_agents = @ \o Tail(sel.collaboration.participating_agents),
       !.pending = DOMAIN sel.subtasks,
       !.subtask_results = [i \in DOMAIN sel.subtasks |-> NotReturned],
       !.stage = "gathering"]
  /\ UNCHANGED <<store, task_queues, tables, submitted, sched, exec, now, duckbot_ai,
                 memento_available,
                 status_log, tick_popped, requeued, db_faults>>

\* the request of subtask i returns or raises: _execute_subtask is over
HierSubtaskReturns(i) ==
  /\ sel.stage = "gathering"
  /\ i \in sel.pending
  /\ sel' = [sel EXCEPT
       !.pending = @ \ {i},
       !.returned = Append(@, i),
       !.subtask_results = [@ EXCEPT ![i] = SubtaskResult(sel.subtasks[i])]]
  /\ UNCHANGED <<store, task_queues, tables, submitted, sched, exec, now, duckbot_ai,
                 memento_available,
                 status_log, tick_popped, requeued, db_faults>>

\* sel.returned is history: the subtasks in the order in which they were over

\* the tasks the scheduler finds in a queue while the collaboration runs
OtherTaskInputs == TaskInputs \cup HierTaskInputs

\* While the collaboration is suspended in its decomposition request or in
\* the gather of its subtasks, the scheduler loop pops another task:
\* _select_best_agent finds an agent in self.agents and
\* _assign_task_to_agent gives it the task
HierSchedulerAssigns(input) ==
  /\ sel.stage \in {"decomposition", "gathering"}
  /\ sel.other = NoOther
  /\ LET task == NewTask(2, input)
         a == select_best_agent(sel.agents, task, now)
     IN /\ a # Null
        /\ sel' = [sel EXCEPT
             !.other = [task_id |-> 2, assigned_agent |-> a, status |-> "assigned"],
             !.agents = [@ EXCEPT ![a] = AssignedAgent(@, 2)]]
  /\ UNCHANGED <<store, task_queues, tables, submitted, sched, exec, now, duckbot_ai,
                 memento_available,
                 status_log, tick_popped, requeued, db_faults>>

\* mutant: the gather is over with the first subtask that is
GatherFirstDone(started, pending) == started = {} \/ pending # started

\* await asyncio.gather(...) returns once every one it started is over
GatherDone(started, pending) == pending = {}

\* Phase 3: the request for the integration; when it returns,
\* _log_collaboration_communication appends its entry and calls
\* _save_collaboration, which raises on json.dumps(shared_context): the
\* handler returns the error dict
HierIntegrate ==
  /\ sel.stage = "gathering"
  /\ GatherDone(DOMAIN sel.subtasks, sel.pending)
  /\ LET input == [i \in DOMAIN sel.subtask_results |->
                     [agent |-> sel.collaboration.participating_agents[i + 1],
                      result |-> sel.subtask_results[i]]]
         logged == [sel.collaboration EXCEPT !.communication_log = Append(@, "integration")]
     IN sel' = [sel EXCEPT
          !.requests = Append(@, "integration"),
          !.request_agents = Append(@, sel.collaboration.primary_agent),
          !.integration_input = input,
          !.collaboration = IF sel.integration = "raises" THEN @ ELSE logged,
          !.result = IF sel.integration = "raises" THEN HierarchicalError("raised")
                     ELSE HierarchicalError("not JSON serializable"),
          !.stage = "returned"]
  /\ UNCHANGED <<store, task_queues, tables, submitted, sched, exec, now, duckbot_ai,
                 memento_available,
                 status_log, tick_popped, requeued, db_faults>>

\* back in _execute_collaborative_task: the collaboration is marked
\* completed, its _save_collaboration raises and the handler returns the
\* error dict, which _execute_task stores as the result of the task it marks
\* completed
HierTaskEnds ==
  /\ sel.stage = "returned"
  /\ sel' = [sel EXCEPT
       !.collaboration = [@ EXCEPT !.status = "completed", !.completed = TRUE],
       !.result = CollaborativeError,
       !.task = [@ EXCEPT !.status = "completed", !.result = CollaborativeError],
       !.stage = "task ended"]
  /\ UNCHANGED <<store, task_queues, tables, submitted, sched, exec, now, duckbot_ai,
                 memento_available,
                 status_log, tick_popped, requeued, db_faults>>

HierNext ==
  \/ HierDecompose
  \/ HierStartSubtasks
  \/ \E i \in AgentIndex : HierSubtaskReturns(i)
  \/ \E input \in OtherTaskInputs : HierSchedulerAssigns(input)
  \/ HierIntegrate
  \/ HierTaskEnds

HierSpec == HierInit /\ [][HierNext]_vars

\* --------------- _select_collaboration_agents on drawn registries
\* the whole catalog of _init_default_agents as the registry
CatalogIndex == 1 .. Len(DefaultAgents)

\* status and load_factor of an agent: idle and unloaded, idle at the load
\* threshold, or at work on a task
CollabAgentStates ==
  { [status |-> "idle", load_factor |-> 0],
    [status |-> "idle", load_factor |-> LoadBalanceThreshold],
    [status |-> "working", load_factor |-> LoadStep] }

\* collaborative tasks by their required capabilities: none, two of one
\* agent, two of two agents, four of three agents, eight of five agents
CollabTaskInputs ==
  { [task_type |-> "development", priority |-> HIGH,
     description |-> [length |-> 60, mentions_collaboration |-> TRUE],
     context |-> [NoContext EXCEPT !.required_capabilities = caps]] :
    caps \in { {}, {"code_generation", "debugging"}, {"code_generation", "web_search"},
               {"code_generation", "debugging", "web_search", "task_decomposition"},
               {"code_generation", "debugging", "testing", "architecture_design",
                "web_search", "script_generation", "data_processing", "content_writing"} } }

\* _execute_collaborative_task is called by _execute_task for the agent the
\* selector chose, which _execute_task has set to work
CollabInit ==
  /\ InitCoordinator
  /\ \E st \in [CatalogIndex -> CollabAgentStates], input \in CollabTaskInputs,
        primary \in CatalogIndex :
       LET task == NewTask(1, input)
           registry == [i \in CatalogIndex |->
                          [NewAgent(DefaultAgents[i]) EXCEPT !.status = st[i].status,
                                                            !.load_factor = st[i].load_factor]]
       IN /\ st[primary].status = "working"
          /\ agent_can_handle_task(registry[primary], task)
          /\ sel = [stage |-> "collaborative", agents |-> registry, task |-> task,
                    primary |-> primary]

\* the Collaboration _execute_collaborative_task builds, with the agents
\* _select_collaboration_agents returns
SelectCollaborationAgents ==
  /\ sel.stage = "collaborative"
  /\ sel' = [stage |-> "created", agents |-> sel.agents, task |-> sel.task,
             primary |-> sel.primary,
             additional_agents |-> select_collaboration_agents(sel.agents, sel.task, sel.primary),
             collaboration |-> NewCollaboration(sel.agents, sel.task, sel.primary)]
  /\ UNCHANGED <<store, task_queues, tables, submitted, sched, exec, now, duckbot_ai,
                 memento_available,
                 status_log, tick_popped, requeued, db_faults>>

CollabNext == SelectCollaborationAgents

CollabSpec == CollabInit /\ [][CollabNext]_vars

\* ------------------ _update_agent_performance on drawn agents and tasks
\* The statistics of an agent, as built by _init_default_agents or read from
\* the agents table by _load_state, and the outcome to record: the agent is
\* fresh or has run tasks; actual_duration is 0 when the clock has not
\* advanced between the two reads of _execute_task, and the average of an
\* agent all of whose tasks had duration 0 is still 0.
RecordInputs ==
  {r \in [total_tasks_completed : 0 .. 3, success_rate : {RatInt(0), Rat(1, 2), RatInt(1)},
          average_completion_time : {RatInt(0), RatInt(1), Rat(5, 2)},
          actual_duration : 0 .. 3, success : BOOLEAN] :
     r.total_tasks_completed = 0
       => r.success_rate = RatInt(1) /\ r.average_completion_time = RatInt(0)}

RecordInit ==
  /\ InitCoordinator
  /\ \E r \in RecordInputs, i \in AgentIndex :
       sel = [stage |-> "outcome",
              agent |-> [NewAgent(Registry[i]) EXCEPT
                           !.total_tasks_completed = r.total_tasks_completed,
                           !.success_rate = r.success_rate,
                           !.average_completion_time = r.average_completion_time],
              actual_duration |-> r.actual_duration, success |-> r.success]

\* await self._update_agent_performance(agent, task, success)
RecordOutcome ==
  /\ sel.stage = "outcome"
  /\ sel' = [stage |-> "recorded", agent |-> sel.agent,
             actual_duration |-> sel.actual_duration, success |-> sel.success,
             updated |-> update_agent_performance(sel.agent, sel.actual_duration, sel.success)]
  /\ UNCHANGED <<store, task_queues, tables, submitted, sched, exec, now, duckbot_ai,
                 memento_available,
                 status_log, tick_popped, requeued, db_faults>>

RecordNext == RecordOutcome

RecordSpec == RecordInit /\ [][RecordNext]_vars

\* -------------------------------- _parse_subtasks on drawn texts
\* number of lines of a decomposition text
MaxLines == 3

\* line.startswith(('-', '*', the bullet U+2022, '1.', '2.', '3.', '4.', '5.'))
BulletPrefixes == {"-", "*", "U+2022", "1.", "2.", "3.", "4.", "5."}

\* A stripped line of the text: how it starts and what follows; body is not
\* empty after a prefix and holds none of the characters lstrip removes.
\* "6." is a number the parser does not know; a line without prefix and body
\* is empty.
ParseLines ==
  [prefix : {"-", "2.", "6.", ""}, body : {"plan", "build"}]
  \cup {[prefix |-> "", body |-> ""]}

IsBullet(line) == line.prefix \in BulletPrefixes

NoSubtask == [kind |-> "none"]

\* the for loop of _parse_subtasks from line i on; details is the lines
\* appended to current_subtask["details"]
RECURSIVE ParseFrom(_, _, _, _)
ParseFrom(lines, i, subtasks, current_subtask) ==
  IF i > Len(lines)
  THEN IF current_subtask # NoSubtask THEN Append(subtasks, current_subtask) ELSE subtasks
  ELSE LET line == lines[i]
       IN IF IsBullet(line)
          THEN ParseFrom(lines, i + 1,
                         IF current_subtask # NoSubtask THEN Append(subtasks, current_subtask)
                         ELSE subtasks,
                         [kind |-> "parsed", description |-> line.body, details |-> <<>>])
          ELSE IF current_subtask # NoSubtask /\ line # [prefix |-> "", body |-> ""]
          THEN ParseFrom(lines, i + 1, subtasks,
                         [current_subtask EXCEPT !.details = Append(@, line)])
          ELSE ParseFrom(lines, i + 1, subtasks, current_subtask)

\* the while loop: "Support task for {agents[len(subtasks)].name}"
RECURSIVE PadSubtasks(_, _)
PadSubtasks(subtasks, agents_) ==
  IF Len(subtasks) < Len(agents_)
  THEN PadSubtasks(Append(subtasks, [kind |-> "support", description |-> agents_[Len(subtasks) + 1],
                                     details |-> <<>>]), agents_)
  ELSE subtasks

\* mutant: return subtasks
parse_subtasks_all(lines, agents_) == PadSubtasks(ParseFrom(lines, 1, <<>>, NoSubtask), agents_)

\* _parse_subtasks: return subtasks[:len(agents)]
parse_subtasks(lines, agents_) ==
  LET subtasks == PadSubtasks(ParseFrom(lines, 1, <<>>, NoSubtask), agents_)
  IN SubSeq(subtasks, 1, Min(Len(subtasks), Len(agents_)))

\* zip(subtasks, agents[1:])
Zip(subtasks, agents_) ==
  [i \in 1 .. Min(Len(subtasks), Len(agents_)) |-> [subtask |-> subtasks[i], agent |-> agents_[i]]]

\* texts of up to MaxLines lines
RECURSIVE TextsOfLength(_)
TextsOfLength(n) ==
  IF n = 0 THEN {<<>>}
  ELSE {Append(text, line) : text \in TextsOfLength(n - 1), line \in ParseLines}

ParseInit ==
  /\ InitCoordinator
  /\ \E n \in 0 .. MaxLines, k \in 0 .. Len(Registry) - 1 :
       \E text \in TextsOfLength(n) :
         sel = [stage |-> "text", lines |-> text,
                agents |-> [i \in 1 .. k |-> Registry[i + 1].agent_id]]

\* subtasks = await self._parse_subtasks(content, agents[1:]), and the pairs
\* asyncio.gather gets
ParseSubtasks ==
  /\ sel.stage = "text"
  /\ LET subtasks == parse_subtasks(sel.lines, sel.agents)
     IN sel' = [stage |-> "parsed", lines |-> sel.lines, agents |-> sel.agents,
                subtasks |-> subtasks, pairs |-> Zip(subtasks, sel.agents)]
  /\ UNCHANGED <<store, task_queues, tables, submitted, sched, exec, now, duckbot_ai,
                 memento_available, status_log, tick_popped, requeued, db_faults>>

ParseNext == ParseSubtasks

ParseSpec == ParseInit /\ [][ParseNext]_vars

\* ------------------------------------- GetTaskStatus on drawn tasks
\* mutant: the estimate is not capped
calculate_task_progress_uncapped(status, elapsed, estimated_duration) ==
  CASE status = "completed" -> RatInt(100)
    [] status = "failed" -> RatInt(0)
    [] status = "in_progress" ->
         IF estimated_duration > 0 THEN Rat(elapsed * 100, estimated_duration)
         ELSE RatInt(50)
    [] OTHER -> RatInt(0)

\* _calculate_task_progress; elapsed is time.time() - task.created_at
calculate_task_progress(status, elapsed, estimated_duration) ==
  CASE status = "completed" -> RatInt(100)
    [] status = "failed" -> RatInt(0)
    [] status = "in_progress" ->
         IF estimated_duration > 0
         THEN RatMin(RatInt(90), Rat(elapsed * 100, estimated_duration))
         ELSE RatInt(50)
    [] OTHER -> RatInt(0)

\* the status of a task, the seconds since it was created and its
\* estimated_duration (300 unless the database holds another value)
ProgressInputs ==
  [status : TaskStatus, elapsed : {0, 40, 100, 400, 1000}, estimated_duration : {0, 100, 300}]

ProgressInit ==
  /\ InitCoordinator
  /\ \E input \in ProgressInputs : sel = [stage |-> "stored", task |-> input]

\* GetTaskStatus for a stored task: 'progress' of the reply
GetTaskStatus ==
  /\ sel.stage = "stored"
  /\ sel' = [stage |-> "reported", task |-> sel.task,
             progress |-> calculate_task_progress(sel.task.status, sel.task.elapsed,
                                                  sel.task.estimated_duration)]
  /\ UNCHANGED <<store, task_queues, tables, submitted, sched, exec, now, duckbot_ai,
                 memento_available,
                 status_log, tick_popped, requeued, db_faults>>

ProgressNext == GetTaskStatus

ProgressSpec == ProgressInit /\ [][ProgressNext]_vars

\* ------------------------------ save and _load_state on drawn records
\* json.dumps(v) and json.loads(s): the column holds the text of v
JsonDumps(v) == [json |-> v]

JsonLoads(s) == s.json

\* the row _save_agent writes
AgentRow(agent) ==
  [agent_id |-> agent.agent_id, agent_type |-> agent.agent_type,
   capabilities |-> JsonDumps(agent.capabilities),
   specializations |-> JsonDumps(agent.specializations),
   current_task |-> agent.current_task, status |-> agent.status,
   load_factor |-> agent.load_factor, success_rate |-> agent.success_rate,
   last_active |-> agent.last_active,
   total_tasks_completed |-> agent.total_tasks_completed,
   average_completion_time |-> agent.average_completion_time]

\* the row _save_task writes
TaskRow(task) ==
  [task_id |-> task.task_id, description |-> task.description,
   task_type |-> task.task_type, priority |-> task.priority, status |-> task.status,
   assigned_agent |-> task.assigned_agent, context |-> JsonDumps(task.context),
   result |-> JsonDumps(task.result), error_message |-> task.error_message,
   actual_duration |-> task.actual_duration]

\* _load_state: the agents it builds from the rows of the agents table
LoadAgents(rows) ==
  { [agent_id |-> row.agent_id, agent_type |-> row.agent_type,
     capabilities |-> JsonLoads(row.capabilities),
     specializations |-> JsonLoads(row.specializations),
     current_task |-> row.current_task, status |-> row.status,
     load_factor |-> row.load_factor, success_rate |-> row.success_rate,
     last_active |-> row.last_active,
     total_tasks_completed |-> row.total_tasks_completed,
     average_completion_time |-> row.average_completion_time] : row \in rows }

\* _load_state: the tasks it builds from the rows of the tasks table,
\* WHERE status NOT IN ('completed', 'failed', 'cancelled')
LoadTasks(rows) ==
  { [task_id |-> row.task_id, task_type |-> row.task_type, priority |-> row.priority,
     description |-> row.description, context |-> JsonLoads(row.context),
     status |-> row.status, assigned_agent |-> row.assigned_agent,
     result |-> JsonLoads(row.result), error_message |-> row.error_message,
     actual_duration |-> row.actual_duration] :
    row \in {r \in rows : r.status \notin {"completed", "failed", "cancelled"}} }

\* a task as the coordinator holds it in each status it gives a task
TaskInStatus(task, status) ==
  CASE status = "pending" -> task
    [] status = "assigned" -> AssignedTask(task, 1)
    [] status = "in_progress" -> [AssignedTask(task, 1) EXCEPT !.status = "in_progress"]
    [] status = "completed" ->
         [AssignedTask(task, 1) EXCEPT !.status = "completed", !.actual_duration = 1,
                                       !.result = SingleAgentResult("success")]
    [] status = "failed" ->
         [AssignedTask(task, 1) EXCEPT !.status = "failed", !.actual_duration = 1,
                                       !.error_message = "database error"]

\* the records the coordinator saves: agents, tasks, collaborations
RoundTripRecords ==
  {[kind |-> "agent", record |-> WithState(NewAgent(Registry[i]), st, 1)] :
     i \in AgentIndex, st \in SelAgentStates}
  \cup
  {[kind |-> "task", record |-> TaskInStatus(NewTask(1, input), status)] :
     input \in TaskInputs,
     status \in {"pending", "assigned", "in_progress", "completed", "failed"}}
  \cup
  {[kind |-> "collaboration",
    record |-> NewCollaboration([i \in AgentIndex |-> NewAgent(Registry[i])],
                                NewTask(1, input), primary)] :
     input \in HierTaskInputs, primary \in AgentIndex}

RoundTripInit ==
  /\ InitCoordinator
  /\ \E r \in RoundTripRecords : sel = [stage |-> "record", kind |-> r.kind, record |-> r.record]

\* the record is saved into an empty database with _save_agent, _save_task
\* or _save_collaboration (which raises), and _load_state reads the database
SaveAndLoad ==
  /\ sel.stage = "record"
  /\ sel' = [stage |-> "loaded", kind |-> sel.kind, record |-> sel.record,
             saved |-> sel.kind # "collaboration",
             loaded |-> CASE sel.kind = "agent" -> LoadAgents({AgentRow(sel.record)})
                          [] sel.kind = "task" -> LoadTasks({TaskRow(sel.record)})
                          [] sel.kind = "collaboration" -> {}]
  /\ UNCHANGED <<store, task_queues, tables, submitted, sched, exec, now, duckbot_ai,
                 memento_available,
                 status_log, tick_popped, requeued, db_faults>>

RoundTripNext == SaveAndLoad

RoundTripSpec == RoundTripInit /\ [][RoundTripNext]_vars

\* ------------------------------------------ SubmitTask as D-Bus calls it
\* the context argument of SubmitTask: a string
EmptyText == [text |-> ""]
NotJsonText == [text |-> "{not json"]

\* the id SubmitTask returns from its handler: the empty string
EmptyId == 0

\* the arguments of a call: priority is any integer the in_signature lets
\* through, context any string
SubmitRequests ==
  { [task_type |-> input.task_type, priority |-> input.priority,
     description |-> input.description,
     context |-> IF input.context = NoContext THEN EmptyText
                 ELSE JsonDumps(input.context)] : input \in FairTaskInputs }
  \cup
  { [task_type |-> "development", priority |-> p, description |-> ShortText,
     context |-> c] :
      p \in {LOW - 1, MEDIUM, EMERGENCY + 1}, c \in {EmptyText, NotJsonText} }

\* json.loads raises on a text that is not JSON
JsonLoadsRaises(s) == "json" \notin DOMAIN s

\* the arguments of Task(...) are evaluated before anything is stored:
\* TaskPriority(priority) raises ValueError on an integer that is no member,
\* and json.loads(context), called for a non-empty context, raises
\* JSONDecodeError
SubmitRaises(request) ==
  \/ request.priority \notin TaskPriority
  \/ request.context # EmptyText /\ JsonLoadsRaises(request.context)

\* the Task fields SubmitTask builds from its arguments
SubmittedInput(request) ==
  [task_type |-> request.task_type, priority |-> request.priority,
   description |-> request.description,
   context |-> IF request.context = EmptyText THEN NoContext
               ELSE JsonLoads(request.context)]

\* mutant: the task is stored before its arguments are converted
SubmitTaskCallStoresFirst(request) ==
  /\ ~SchedulerRunning
  /\ Len(tasks) < MaxTasks
  /\ LET id == Len(tasks) + 1
         input == IF SubmitRaises(request)
                  THEN [task_type |-> request.task_type, priority |-> MEDIUM,
                        description |-> request.description, context |-> NoContext]
                  ELSE SubmittedInput(request)
     IN /\ tasks' = Append(tasks, NewTask(id, input))
        /\ db_tasks' = Append(db_tasks, NotSaved)
        /\ exec' = Append(exec, NoExec)
        /\ status_log' = Append(status_log, <<"pending">>)
        /\ submitted' = IF SubmitRaises(request) THEN submitted ELSE submitted \cup {id}
        /\ sel' = [stage |-> "replied", request |-> request,
                   reply |-> IF SubmitRaises(request) THEN EmptyId ELSE id]
  /\ UNCHANGED <<agents, collaborations, task_queues, db_agents, performance_metrics,
                 sched, now, duckbot_ai, memento_available, tick_popped, requeued, db_faults>>

\* The whole D-Bus method.  sel holds the last call and what it returned.
\* When an argument raises, the handler logs and returns the empty string;
\* otherwise the task is stored, the two jobs are created and the task id is
\* returned, as in SubmitTask.
SubmitTaskCall(request) ==
  /\ ~SchedulerRunning
  /\ IF SubmitRaises(request)
     THEN /\ sel' = [stage |-> "replied", request |-> request, reply |-> EmptyId]
          /\ UNCHANGED <<store, task_queues, tables, submitted, sched, exec, now, duckbot_ai,
                         memento_available, status_log, tick_popped, requeued, db_faults>>
     ELSE /\ Len(tasks) < MaxTasks
          /\ LET id == Len(tasks) + 1
             IN /\ tasks' = Append(tasks, NewTask(id, SubmittedInput(request)))
                /\ db_tasks' = Append(db_tasks, NotSaved)
                /\ exec' = Append(exec, NoExec)
                /\ status_log' = Append(status_log, <<"pending">>)
                /\ submitted' = submitted \cup {id}
                /\ sel' = [stage |-> "replied", request |-> request, reply |-> id]
          /\ UNCHANGED <<agents, collaborations, task_queues, db_agents,
                         performance_metrics, sched, now, duckbot_ai, memento_available,
                         tick_popped, requeued, db_faults>>

\* FairNext with SubmitTask called through its D-Bus signature
SubmitNext ==
  \/ \E request \in SubmitRequests : SubmitTaskCall(request)
  \/ \E t \in submitted, save_ok \in BOOLEAN : RunSubmitJobs(t, save_ok)
  \/ SchedWake
  \/ SchedEndTick
  \/ \E clock \in Clock : SchedAssign(clock)
  \/ \E clock \in Clock, task_saved, failed_saved \in BOOLEAN :
       SchedAssignError(clock, task_saved, failed_saved)
  \/ SchedNoAgent
  \/ SchedRequeue
  \/ \E t \in TaskIds, clock \in Clock : ExecStartSingle(t, clock)
  \/ \E t \in TaskIds, clock \in Clock, m, s1, s2 \in BOOLEAN :
       ExecStartUnavailable(t, clock, m, s1, s2)
  \/ \E t \in TaskIds, clock \in Clock, m, s1, s2 \in BOOLEAN :
       ExecStartCollaborative(t, clock, m, s1, s2)
  \/ \E t \in TaskIds, clock \in Clock, f, m, s1, s2 \in BOOLEAN :
       ExecStartError(t, clock, f, m, s1, s2)
  \/ \E t \in TaskIds, clock \in Clock, o \in ExecutionOutcomes, m, s1, s2 \in BOOLEAN :
       ExecFinishSingle(t, clock, o, m, s1, s2)

SubmitSpec == FairInit /\ [][SubmitNext]_vars

\* ------------------------- the coordinator started on a database in use
\* the statuses of the rows _load_state selects
LoadedStatuses == {"pending", "assigned", "in_progress"}

\* The coordinator after initialize() on the database of an earlier run that
\* ended with one task not over: waiting in its queue, assigned, or in its
\* execution.  _init_default_agents builds the default agents and saves
\* them over their rows; _load_state reads the agents back and builds the
\* task from its row; the queues are new and empty, and no _execute_task
\* exists.
RestartInit ==
  /\ \E input \in TaskInputs, status \in LoadedStatuses :
       LET row == TaskInStatus(NewTask(1, input), status)
       IN /\ db_tasks = <<row>>
          /\ tasks = <<CHOOSE task \in LoadTasks({TaskRow(row)}) : TRUE>>
          /\ status_log = << <<status>> >>
  /\ agents = [i \in AgentIndex |-> NewAgent(Registry[i])]
  /\ db_agents = [i \in AgentIndex |-> NewAgent(Registry[i])]
  /\ collaborations = <<>>
  /\ task_queues = [p \in TaskPriority |-> <<>>]
  /\ performance_metrics = <<>>
  /\ submitted = {}
  /\ sched = SchedSleeping
  /\ exec = <<NoExec>>
  /\ now = 1
  /\ duckbot_ai \in BOOLEAN
  /\ memento_available \in BOOLEAN
  /\ tick_popped = <<>>
  /\ requeued = {}
  /\ db_faults = 0
  /\ sel = SelOff

RestartSpec == RestartInit /\ [][Next]_vars

\* ------------------------------------------------------------ properties
IsPrefix(s, t) == Len(s) <= Len(t) /\ \A i \in DOMAIN s : s[i] = t[i]

\* the agent is released
Released(agent) == agent.status = "idle" /\ agent.current_task = Null

\* the tasks an agent is working for: assigned to it and not yet over
ActiveTasksOf(a) ==
  {t \in TaskIds : tasks[t].assigned_agent = a /\ tasks[t].status \in {"assigned", "in_progress"}}

\* C1: the distinct statuses a task takes, in order, are a prefix of pending,
\* assigned, in_progress, completed or of pending, assigned, in_progress,
\* failed, on every path, those with an exception raised inside
\* _process_task_assignment or _assign_task_to_agent included.
C1_StatusPath ==
  \A t \in DOMAIN status_log :
    \/ IsPrefix(status_log[t], <<"pending", "assigned", "in_progress", "completed">>)
    \/ IsPrefix(status_log[t], <<"pending", "assigned", "in_progress", "failed">>)

\* C2: once the execution capability called for a single-agent task has
\* reported failure or raised, the task ends failed with error_message
\* populated and its agent is released.
C2_ExecutionFailureFails ==
  \A t \in TaskIds :
    exec[t].pc = "done" /\ exec[t].outcome \in {"failure", "raises"}
      => /\ tasks[t].status = "failed"
         /\ tasks[t].error_message # ""
         /\ Released(agents[tasks[t].assigned_agent])

\* C3: every step in which _execute_task finishes for a task, on whatever
\* exit path, leaves the task's agent idle with current_task null and
\* load_factor = max(0, load_factor before the step - 0.3).
C3_CleanupOnEveryExit ==
  [][\A t \in TaskIds :
       exec[t].pc # "done" /\ exec'[t].pc = "done"
         => LET a == tasks[t].assigned_agent
            IN /\ agents'[a].status = "idle"
               /\ agents'[a].current_task = Null
               /\ agents'[a].load_factor = Max(0, agents[a].load_factor - LoadStep)]_vars

\* C3 happens: _execute_task is over on its exception path (the task is
\* failed) and on its normal path, each with the agent released and unloaded
C3_ExitsOnBothPaths ==
  /\ \E t \in TaskIds :
       /\ exec[t].pc = "done" /\ tasks[t].status = "failed"
       /\ Released(agents[tasks[t].assigned_agent])
       /\ agents[tasks[t].assigned_agent].load_factor = 0
  /\ \E t \in TaskIds :
       /\ exec[t].pc = "done" /\ tasks[t].status = "completed"
       /\ Released(agents[tasks[t].assigned_agent])

\* C4: in every reachable state every agent's load_factor is within [0, 1].
C4_LoadWithinUnitInterval ==
  \A a \in AgentIndex : 0 <= agents[a].load_factor /\ agents[a].load_factor <= LoadMax

\* C4 happens: an agent that completed a task is back at load 0 while
\* another agent carries the load of an assignment
C4_AssignAndCompleteInterleaved ==
  \E a, b \in AgentIndex :
    /\ agents[a].total_tasks_completed > 0 /\ agents[a].load_factor = 0
    /\ agents[b].current_task # Null /\ agents[b].load_factor = LoadStep

\* C5: each agent is the assigned_agent of at most one task whose status is
\* assigned or in_progress, and an agent's non-null current_task is exactly
\* that task.
C5_OneActiveTaskPerAgent ==
  \A a \in AgentIndex :
    /\ Cardinality(ActiveTasksOf(a)) <= 1
    /\ agents[a].current_task # Null => ActiveTasksOf(a) = {agents[a].current_task}

\* C6: within a tick the priority levels at which a task was popped strictly
\* descend (emergency down to low, at most one pop per level), and a task is
\* popped only while no earlier attempt is pending: the step that pops it is
\* taken by the scanning loop holding no task, and ends with the popped task
\* assigned, failed or held for its re-enqueueing, which comes before the
\* next pop.
C6_TickOrder ==
  /\ [](\A i, j \in DOMAIN tick_popped : i < j => tick_popped[i] > tick_popped[j])
  /\ [][Len(tick_popped') > Len(tick_popped)
          => /\ sched.pc = "scan" /\ sched.held = Null
             /\ tick_popped' = Append(tick_popped, tasks[NextTask].priority)
             /\ \/ tasks'[NextTask].status \in {"assigned", "failed"}
                \/ sched'.pc = "backoff" /\ sched'.held = NextTask]_vars
  /\ [][sched.pc = "backoff" => tick_popped' = tick_popped]_vars

\* C6 happens: one tick has popped at two priority levels, the first of the
\* two tasks being assigned
C6_TwoLevelsInOneTick ==
  /\ Len(tick_popped) >= 2
  /\ \E t \in TaskIds : tasks[t].priority = tick_popped[1] /\ tasks[t].status = "assigned"

\* C7: a popped task for which the selector returns no agent is held pending
\* with assigned_agent null and then appended to the queue of its own
\* priority, the other queues untouched; and no task is failed without
\* having been given an agent.
C7_RequeueOnNoAgent ==
  /\ [](sched.pc = "backoff"
          => /\ tasks[sched.held].status = "pending"
             /\ tasks[sched.held].assigned_agent = Null)
  /\ [][sched.pc # "backoff" /\ sched'.pc = "backoff"
          => /\ select_best_agent(agents, tasks[sched'.held], now) = Null
             /\ sched'.held = NextTask]_vars
  /\ [][sched.pc = "backoff" /\ sched'.pc # "backoff"
          => LET t == sched.held
             IN /\ task_queues' = [task_queues EXCEPT ![tasks[t].priority] = Append(@, t)]
                /\ tasks'[t].status = "pending"
                /\ tasks'[t].assigned_agent = Null]_vars
  /\ [](\A t \in TaskIds : tasks[t].status = "failed" => tasks[t].assigned_agent # Null)

\* C7 happens: a task that was re-enqueued before is popped again, again
\* finds no agent and is held again
C7_RequeuedAgain ==
  /\ sched.pc = "backoff"
  /\ sched.held \in requeued
  /\ select_best_agent(agents, tasks[sched.held], now) = Null

\* the capability match as C10 words it, over the compatibility table
CapabilityMatches(agent, task) ==
  LET required == task.context.required_capabilities
  IN IF required # {}
     THEN 2 * Cardinality(agent.capabilities \cap required) >= Cardinality(required)
     ELSE agent.agent_type \in TaskTypeMapping(task.task_type) \/ agent.agent_type = "coordination"

\* idle, load_factor < 0.8 and a capability match
Eligible(agent, task) ==
  /\ agent.status = "idle"
  /\ agent.load_factor < LoadBalanceThreshold
  /\ CapabilityMatches(agent, task)

Selected == sel.stage = "selected"

C9_MaximalScoreFirstInRegistry ==
  Selected /\ sel.result # Null =>
    \A j \in AgentIndex :
      Eligible(sel.agents[j], sel.task)
        => /\ RatLeq(sel.scores[j], sel.scores[sel.result])
           /\ j < sel.result => RatLess(sel.scores[j], sel.scores[sel.result])

\* C9 happens: two eligible agents of different success rates share the
\* maximal score, and the earlier one is returned
C9_TieOnMaximalScore ==
  /\ Selected
  /\ sel.result # Null
  /\ \E j \in AgentIndex :
       /\ j > sel.result
       /\ Eligible(sel.agents[j], sel.task)
       /\ sel.scores[j] = sel.scores[sel.result]
       /\ sel.agents[j].success_rate # sel.agents[sel.result].success_rate

\* C10: _agent_can_handle_task is the capability match: with a non-empty
\* required_capabilities, coverage >= 0.5 for an agent of any type; with
\* none, the agent's type is listed for the task_type or is coordination.
C10_CapabilityMatch ==
  Selected =>
    \A i \in AgentIndex : sel.can_handle[i] <=> CapabilityMatches(sel.agents[i], sel.task)

\* C10 happens: with required capabilities, an agent of a type not listed
\* for the task_type matches at a coverage of exactly one half and the
\* coordination agent does not match
C10_ExactlyHalfCovered ==
  /\ Selected
  /\ sel.task.context.required_capabilities # {}
  /\ \E i \in AgentIndex :
       /\ sel.agents[i].agent_type \notin TaskTypeMapping(sel.task.task_type)
       /\ 2 * Cardinality(sel.agents[i].capabilities \cap sel.task.context.required_capabilities)
            = Cardinality(sel.task.context.required_capabilities)
       /\ sel.can_handle[i]
  /\ \E j \in AgentIndex :
       sel.agents[j].agent_type = "coordination" /\ ~sel.can_handle[j]

\* the agent covers at least one of the task's required capabilities
CoversSome(agent, task) == agent.capabilities \cap task.context.required_capabilities # {}

\* the fields of an agent that enter its score besides its capabilities
SameStanding(a, b) ==
  /\ a.status = b.status /\ a.load_factor = b.load_factor
  /\ a.success_rate = b.success_rate /\ a.last_active = b.last_active
  /\ a.average_completion_time = b.average_completion_time

\* C11: for a task that requires a single capability, if an idle agent A
\* below the load threshold has it and an agent B of equal success_rate, load
\* and history covers nothing, the selector returns an agent that has the
\* capability and not B, wherever A and B are in the registry; and an agent
\* covering none of a task's declared required capabilities is never selected.
C11_CoverageDecides ==
  Selected =>
    /\ sel.task.context.required_capabilities # {} /\ sel.result # Null
         => CoversSome(sel.agents[sel.result], sel.task)
    /\ \A a, b \in AgentIndex :
         /\ Cardinality(sel.task.context.required_capabilities) = 1
         /\ sel.agents[a].status = "idle"
         /\ sel.agents[a].load_factor < LoadBalanceThreshold
         /\ CoversSome(sel.agents[a], sel.task)
         /\ ~CoversSome(sel.agents[b], sel.task)
         /\ SameStanding(sel.agents[a], sel.agents[b])
         => sel.result = a

\* C11 happens: the task requires one capability, the agent that has it is
\* returned, and agents of the same standing that cover nothing come before
\* and after it in the registry
C11_CoveringAgentBetweenOthers ==
  /\ Selected
  /\ Cardinality(sel.task.context.required_capabilities) = 1
  /\ sel.result # Null
  /\ \E b, c \in AgentIndex :
       /\ b < sel.result /\ sel.result < c
       /\ ~CoversSome(sel.agents[b], sel.task) /\ ~CoversSome(sel.agents[c], sel.task)
       /\ SameStanding(sel.agents[sel.result], sel.agents[b])
       /\ SameStanding(sel.agents[sel.result], sel.agents[c])

\* the number of complexity indicators of C12 that hold for a task
IndicatorCount(task) ==
  (IF task.description.length > 500 THEN 1 ELSE 0)
  + (IF task.context.estimated_subtasks > 3 THEN 1 ELSE 0)
  + (IF Cardinality(task.context.required_capabilities) > 3 THEN 1 ELSE 0)
  + (IF task.priority = HIGH \/ task.priority = CRITICAL THEN 1 ELSE 0)
  + (IF task.description.mentions_collaboration THEN 1 ELSE 0)

\* C12: a task is routed to collaborative execution iff at least 2 of the 5
\* indicators hold (emergency priority is not one), and to single-agent
\* execution otherwise.
C12_CollaborativeIffTwoIndicators ==
  sel.stage = "routed" =>
    /\ sel.route = "collaborative" <=> IndicatorCount(sel.task) >= 2
    /\ sel.route = "single_agent" <=> IndicatorCount(sel.task) < 2

\* C12 happens: an emergency task with one indicator is routed to a single
\* agent
C12_EmergencyDoesNotCount ==
  /\ sel.stage = "routed"
  /\ sel.task.priority = EMERGENCY
  /\ IndicatorCount(sel.task) = 1
  /\ sel.route = "single_agent"

\* C13: a task meeting at least 2 complexity indicators whose execution is
\* over (no database call of _execute_task having raised) went through
\* decomposition, subtasks and integration: its result is the integrated
\* result of the hierarchical collaboration, and its collaboration record
\* has status completed.
C13_CollaborationProducesResult ==
  \A t \in TaskIds :
    /\ exec[t].pc = "done"
    /\ exec[t].outcome # "database error"
    /\ IndicatorCount(tasks[t]) >= 2
    => /\ tasks[t].result.success = "true"
       /\ tasks[t].result.execution_type = "hierarchical_collaboration"
       /\ \E c \in DOMAIN collaborations :
            collaborations[c].task_id = t /\ collaborations[c].status = "completed"

ExecutedBy(a) == {t \in TaskIds : exec[t].pc = "done" /\ tasks[t].assigned_agent = a}

\* those of them recorded as a success
SucceededBy(a) == {t \in ExecutedBy(a) : tasks[t].status = "completed"}

\* C15: the step that records a task's outcome sets success_rate to
\* (old_success_rate * old_count + s) / (old_count + 1), s = 1 on success
\* and 0 on failure, old_count = total_tasks_completed before the step; and an
\* agent with n >= 1 executed tasks has success_rate = successes / n, which
\* is within [0,1].
C15_SuccessRateIsRunningMean ==
  /\ [][\A t \in TaskIds :
          exec[t].pc # "done" /\ exec'[t].pc = "done"
            => LET a == tasks[t].assigned_agent
                   old == agents[a]
                   s == IF tasks'[t].status = "completed" THEN 1 ELSE 0
               IN agents'[a].success_rate =
                    Rat(old.success_rate[1] * old.total_tasks_completed
                          + s * old.success_rate[2],
                        old.success_rate[2] * (old.total_tasks_completed + 1))]_vars
  /\ [](\A a \in AgentIndex :
          /\ agents[a].total_tasks_completed = Cardinality(ExecutedBy(a))
          /\ ExecutedBy(a) # {} =>
               agents[a].success_rate
                 = Rat(Cardinality(SucceededBy(a)), Cardinality(ExecutedBy(a)))
          /\ RatLeq(RatInt(0), agents[a].success_rate)
          /\ RatLeq(agents[a].success_rate, RatInt(1)))

\* C15 happens: an agent has run two tasks, one recorded as a success and
\* one as a failure
C15_OneOfTwoSucceeded ==
  \E a \in AgentIndex :
    /\ Cardinality(ExecutedBy(a)) = 2
    /\ Cardinality(SucceededBy(a)) = 1
    /\ agents[a].success_rate = Rat(1, 2)

\* min(90, elapsed / estimated_duration * 100) if estimated_duration > 0, else 50
ProgressEstimate(task) ==
  IF task.estimated_duration > 0
  THEN RatMin(RatInt(90), Rat(task.elapsed * 100, task.estimated_duration))
  ELSE RatInt(50)

\* C16 as stated: progress is 100 for a completed task, 0 for a failed
\* task and the estimate for every other task.
C16_EstimateForEveryOtherTask ==
  sel.stage = "reported" =>
    sel.progress = CASE sel.task.status = "completed" -> RatInt(100)
                     [] sel.task.status = "failed" -> RatInt(0)
                     [] OTHER -> ProgressEstimate(sel.task)

\* C16 amended: progress is 100 for a completed task, the estimate for an
\* in_progress task and 0 for a task in any other status; an in_progress
\* task with estimated_duration 100 reports 40 at elapsed 40 and 90 at
\* elapsed 1000; progress is within [0,100].
C16_EstimateOnlyInProgress ==
  sel.stage = "reported" =>
    /\ sel.progress = CASE sel.task.status = "completed" -> RatInt(100)
                        [] sel.task.status = "in_progress" -> ProgressEstimate(sel.task)
                        [] OTHER -> RatInt(0)
    /\ sel.task.status = "in_progress" /\ sel.task.estimated_duration = 100
         => /\ sel.task.elapsed = 40 => sel.progress = RatInt(40)
            /\ sel.task.elapsed = 1000 => sel.progress = RatInt(90)
    /\ RatLeq(RatInt(0), sel.progress) /\ RatLeq(sel.progress, RatInt(100))

\* C16 happens: an in_progress task whose estimate is beyond the cap
\* reports 90
C16_CappedAtNinety ==
  /\ sel.stage = "reported"
  /\ sel.task.status = "in_progress"
  /\ sel.task.estimated_duration = 100 /\ sel.task.elapsed = 1000
  /\ sel.progress = RatInt(90)

\* C17: a step of one task's execution changes the record of no agent but
\* the task's own; and an agent that has run exactly one task and holds no
\* other has load_factor 0, status idle, total_tasks_completed 1 and the
\* success_rate of that one outcome, whatever ran at the same time.
C17_NoCrossContamination ==
  /\ [][\A t \in TaskIds :
          exec[t].pc \in {"launched", "awaiting"} /\ exec'[t] # exec[t]
            => \A b \in AgentIndex \ {tasks[t].assigned_agent} : agents'[b] = agents[b]]_vars
  /\ [](\A a \in AgentIndex :
          Cardinality(ExecutedBy(a)) = 1 /\ agents[a].current_task = Null
            => /\ agents[a].status = "idle"
               /\ agents[a].load_factor = 0
               /\ agents[a].total_tasks_completed = 1
               /\ agents[a].success_rate = RatInt(Cardinality(SucceededBy(a))))

\* C17 happens: two tasks ran on two agents, the second started while the
\* first was suspended in its execution request, and both are over
C17_BothCompletedConcurrently ==
  \E t, u \in TaskIds :
    /\ u \in exec[t].started_during
    /\ exec[t].pc = "done" /\ exec[u].pc = "done"
    /\ exec[t].outcome = "success" /\ exec[u].outcome = "success"
    /\ tasks[t].assigned_agent # tasks[u].assigned_agent

\* the tasks and agents agree with their rows in status
TasksWrittenThrough ==
  \A t \in TaskIds \ submitted : db_tasks[t].status = tasks[t].status

AgentsWrittenThrough ==
  \A a \in AgentIndex : db_agents[a].status = agents[a].status

\* C18: between two operations, as long as no database call has failed, the
\* status the database holds for every task past its submission, every agent
\* and every collaboration is the in-memory status.
C18_WriteThrough ==
  db_faults = 0 =>
    /\ TasksWrittenThrough
    /\ AgentsWrittenThrough
    /\ \A c \in DOMAIN collaborations :
         /\ c \in DOMAIN db_collaborations
         /\ db_collaborations[c].status = collaborations[c].status

\* C19: a record that is saved and then loaded is there again, equal field
\* for field.
C19_SaveLoadRoundTrip ==
  sel.stage = "loaded" => sel.saved /\ sel.loaded = {sel.record}

\* the number of times task t is in queue q
Occurrences(q, t) == Cardinality({i \in DOMAIN q : q[i] = t})

\* C20: a SubmitTask stores a pending task without agent under an id that
\* was not in use; the task is then put once, into the queue of its own
\* priority and no other; it leaves pending only when the scheduler takes it
\* from the head of that queue.
C20_SubmitStoresAndEnqueuesOnce ==
  /\ [][Len(tasks') > Len(tasks)
          => LET id == Len(tasks')
             IN /\ id \notin TaskIds
                /\ Len(tasks') = Len(tasks) + 1
                /\ tasks'[id].task_id = id
                /\ tasks'[id].status = "pending"
                /\ tasks'[id].assigned_agent = Null
                /\ submitted' = submitted \cup {id}
                /\ task_queues' = task_queues]_vars
  /\ [][\A t \in submitted :
          t \notin submitted'
            => \A p \in TaskPriority :
                 task_queues'[p] = IF p = tasks[t].priority
                                   THEN Append(task_queues[p], t) ELSE task_queues[p]]_vars
  /\ [](\A t \in submitted : \A p \in TaskPriority : Occurrences(task_queues[p], t) = 0)
  /\ [][\A t \in TaskIds :
          /\ \/ tasks[t].status = "pending" /\ tasks'[t].status # "pending"
             \/ sched.held # t /\ sched'.held = t
            => /\ sched.pc = "scan"
               /\ task_queues[tasks[t].priority] # <<>>
               /\ t = Head(task_queues[tasks[t].priority])
               /\ task_queues'[tasks[t].priority] = Tail(task_queues[tasks[t].priority])]_vars

\* C20 happens: two tasks were submitted under different ids; one has been
\* taken from its queue and assigned, the other waits in the queue of its
\* priority
C20_SubmittedThenDequeued ==
  \E t, u \in TaskIds :
    /\ t # u /\ submitted = {}
    /\ tasks[t].status = "assigned"
    /\ \A p \in TaskPriority : Occurrences(task_queues[p], t) = 0
    /\ tasks[u].status = "pending"
    /\ Occurrences(task_queues[tasks[u].priority], u) = 1

\* C21: a database write that raises is only logged: a task is failed only
\* by what its execution reported, never by a write; a task that was given an
\* agent and is over was executed, and its agent is released; and the
\* scheduler loop goes on.
C21_PersistenceFailureOnlyLogged ==
  /\ sched.pc \in {"sleep", "scan", "backoff"}
  /\ \A t \in TaskIds :
       /\ tasks[t].status = "failed"
            => exec[t].pc = "done" /\ exec[t].outcome \in {"failure", "raises"}
       /\ tasks[t].status \in {"completed", "failed"} /\ tasks[t].assigned_agent # Null
            => /\ exec[t].pc = "done"
               /\ exec[t].outcome # "database error"
               /\ agents[tasks[t].assigned_agent].current_task # t

\* the agents of the collaboration besides the primary one
NonPrimary == Tail(sel.collaboration.participating_agents)

\* the requests of a hierarchical collaboration that runs to its integration
AllRequests == <<"decomposition">> \o [i \in DOMAIN NonPrimary |-> "subtask"] \o <<"integration">>

\* C22: the execution capability is called once for the decomposition, then
\* once for each non-primary agent with that agent's subtask, all of these
\* calls being made before one of them returns, then once for the integration:
\* the integration call is made only once every subtask is over, and it is
\* made when every subtask ended in an error.
C22_RequestsOfHierarchicalCollaboration ==
  /\ [](sel.stage \in {"decomposition", "subtasks", "gathering", "returned", "task ended"}
          => /\ IsPrefix(sel.requests, AllRequests)
             /\ \A i \in DOMAIN NonPrimary :
                  i + 1 \in DOMAIN sel.requests => sel.request_agents[i + 1] = NonPrimary[i]
             /\ \A i, j \in DOMAIN NonPrimary : i # j => NonPrimary[i] # NonPrimary[j])
  /\ [](sel.stage \in {"returned", "task ended"} /\ sel.decomposition = "success"
          => sel.requests = AllRequests)
  /\ [][Len(sel.returned') > Len(sel.returned)
          => Len(sel.requests) = 1 + Len(NonPrimary)]_vars
  /\ [][sel.requests' # sel.requests /\ sel.requests'[Len(sel.requests')] = "integration"
          => /\ sel.pending = {}
             /\ Len(sel.returned) = Len(NonPrimary)
             /\ \A i \in DOMAIN NonPrimary : sel.subtask_results[i] # NotReturned]_vars

\* C22 happens: two non-primary agents ran their subtasks, the second was
\* over before the first, both ended in an error, and the integration was
\* requested
C22_IntegrationAfterAllErrored ==
  /\ sel.stage = "returned"
  /\ sel.returned = <<2, 1>>
  /\ \A i \in DOMAIN sel.subtask_results : sel.subtask_results[i].success = "false"
  /\ sel.requests = <<"decomposition", "subtask", "subtask", "integration">>

\* the required capabilities still missing when the k-th additional agent of
\* the collaboration is chosen
RECURSIVE MissingBefore(_)
MissingBefore(k) ==
  IF k = 1
  THEN sel.task.context.required_capabilities \ sel.agents[sel.primary].capabilities
  ELSE MissingBefore(k - 1) \ sel.agents[sel.additional_agents[k - 1]].capabilities

\* C23: participating_agents is the primary agent followed by the additional
\* agents, holds no agent twice and at most 5; each additional agent is idle
\* with load_factor < 0.8 and has a required capability that the primary and
\* the agents chosen before it lack, so that none is chosen once the
\* required capabilities are covered, and none when the primary covers them.
C23_ParticipatingAgents ==
  sel.stage = "created" =>
    LET all_agents == sel.collaboration.participating_agents
    IN /\ all_agents = <<sel.primary>> \o sel.additional_agents
       /\ \A i, j \in DOMAIN all_agents : i # j => all_agents[i] # all_agents[j]
       /\ Len(all_agents) <= 5
       /\ \A k \in DOMAIN sel.additional_agents :
            LET agent == sel.agents[sel.additional_agents[k]]
            IN /\ agent.status = "idle"
               /\ agent.load_factor < LoadBalanceThreshold
               /\ agent.capabilities \cap MissingBefore(k) # {}
       /\ sel.task.context.required_capabilities \subseteq sel.agents[sel.primary].capabilities
            => sel.additional_agents = <<>>

\* C23 happens: three agents were added to the primary one, and an idle
\* agent at the load threshold that has a capability still missing was
\* passed over
C23_LoadedAgentPassedOver ==
  /\ sel.stage = "created"
  /\ Len(sel.collaboration.participating_agents) = 4
  /\ \E i \in CatalogIndex :
       /\ sel.agents[i].status = "idle"
       /\ sel.agents[i].load_factor = LoadBalanceThreshold
       /\ sel.agents[i].capabilities \cap MissingBefore(4) # {}

MetricsOf(t) == {i \in DOMAIN performance_metrics : performance_metrics[i].task_id = t}

\* the row that records the outcome of task t, run by agent a, as it is
\* after the step
OutcomeRecord(a, t) ==
  [agent_id |-> a, task_id |-> t, metric_type |-> "task_completion",
   value |-> IF tasks'[t].status = "completed" THEN 1 ELSE 0]

\* C25 as stated: every step in which _execute_task finishes for a task
\* raises the agent's total_tasks_completed by 1 and appends one
\* task_completion row, of value 1 iff the task ends completed and 0 iff it
\* ends failed.
C25_OneOutcomeRecorded ==
  [][\A t \in TaskIds :
       exec[t].pc # "done" /\ exec'[t].pc = "done"
         => LET a == tasks[t].assigned_agent
            IN /\ tasks'[t].status \in {"completed", "failed"}
               /\ agents'[a].total_tasks_completed = agents[a].total_tasks_completed + 1
               /\ performance_metrics' = Append(performance_metrics, OutcomeRecord(a, t))]_vars

\* C25 amended: every such step raises total_tasks_completed by 1 and
\* appends that one row or, if a database call raises in the step, at most
\* that row; a task never has more than one row.
C25_OneOutcomeUnlessInsertRaises ==
  /\ [][\A t \in TaskIds :
          exec[t].pc # "done" /\ exec'[t].pc = "done"
            => LET a == tasks[t].assigned_agent
               IN /\ tasks'[t].status \in {"completed", "failed"}
                  /\ agents'[a].total_tasks_completed = agents[a].total_tasks_completed + 1
                  /\ \/ performance_metrics' = Append(performance_metrics, OutcomeRecord(a, t))
                     \/ /\ performance_metrics' = performance_metrics
                        /\ db_faults' > db_faults]_vars
  /\ [](\A t \in TaskIds :
          /\ Cardinality(MetricsOf(t)) <= 1
          /\ exec[t].pc # "done" => MetricsOf(t) = {})

\* C25 happens: one agent has run two tasks; the outcome of one is in the
\* table with value 1, the INSERT for the other raised and left no row
C25_OneRowLost ==
  \E t, u \in TaskIds, a \in AgentIndex :
    /\ t # u /\ ExecutedBy(a) = {t, u}
    /\ agents[a].total_tasks_completed = 2
    /\ MetricsOf(t) = {} /\ Cardinality(MetricsOf(u)) = 1
    /\ \A i \in MetricsOf(u) : performance_metrics[i].value = 1

\* C26: RecordOutcome sets average_completion_time to
\* (old_avg * old_count + actual_duration) / (old_count + 1) for every
\* recorded task, one of duration 0 and an agent of average 0 with
\* old_count > 0 included; the result is not negative.
C26_AverageIsRunningMean ==
  sel.stage = "recorded" =>
    LET old_avg == sel.agent.average_completion_time
        old_count == sel.agent.total_tasks_completed
    IN /\ sel.updated.average_completion_time
            = Rat(old_avg[1] * old_count + sel.actual_duration * old_avg[2],
                  old_avg[2] * (old_count + 1))
       /\ RatLeq(RatInt(0), sel.updated.average_completion_time)

\* the tasks that hold an agent: assigned or in_progress
ActiveTasks == {t \in TaskIds : tasks[t].status \in {"assigned", "in_progress"}}

\* C27: the step that assigns a task launches its execution and leaves the
\* scheduler in its scan, the execution not begun; the tasks that are
\* assigned or in_progress are on pairwise different agents, none of them
\* idle, so that their number never exceeds the number of agents.
C27_SchedulerDoesNotWait ==
  /\ [][\A t \in TaskIds :
          tasks[t].status = "pending" /\ tasks'[t].status = "assigned"
            => /\ sched'.pc = "scan"
               /\ exec'[t].pc = "launched"
               /\ \A u \in TaskIds \ {t} : exec'[u] = exec[u] /\ tasks'[u] = tasks[u]]_vars
  /\ [](\A t, u \in ActiveTasks :
          /\ agents[tasks[t].assigned_agent].status # "idle"
          /\ t # u => tasks[t].assigned_agent # tasks[u].assigned_agent)
  /\ [](Cardinality(ActiveTasks) <= Cardinality({a \in AgentIndex : agents[a].status # "idle"}))
  /\ [](Cardinality(ActiveTasks) <= Len(agents))

\* C27 happens: two tasks are in_progress at once on two agents, and the
\* second was assigned while the first was in_progress
C27_TwoInProgress ==
  \E t, u \in TaskIds :
    /\ t \in exec[u].assigned_during
    /\ tasks[t].status = "in_progress" /\ tasks[u].status = "in_progress"
    /\ tasks[t].assigned_agent # tasks[u].assigned_agent

\* task t waits in queue q before task u
WaitsBefore(q, t, u) == \E i, j \in DOMAIN q : i < j /\ q[i] = t /\ q[j] = u

\* C28: each queue is first in, first out.  A step changes a queue only by
\* taking its head or by putting one task behind all that wait in it; the
\* task a step takes for an assignment attempt is the head of the queue of
\* its priority, so that of two tasks waiting in one queue the one enqueued
\* first is attempted first; and a task enqueued again after an attempt
\* without agent goes behind every task waiting in that queue.
C28_FifoWithinPriority ==
  /\ [][\A p \in TaskPriority :
          \/ task_queues'[p] = task_queues[p]
          \/ task_queues[p] # <<>> /\ task_queues'[p] = Tail(task_queues[p])
          \/ \E t \in TaskIds : tasks[t].priority = p /\ task_queues'[p] = Append(task_queues[p], t)]_vars
  /\ [][Len(tick_popped') > Len(tick_popped)
          => LET p == tick_popped'[Len(tick_popped')]
                 t == Head(task_queues[p])
             IN /\ task_queues'[p] = Tail(task_queues[p])
                /\ \/ tasks'[t].status # "pending"
                   \/ sched'.held = t
                /\ \A u \in TaskIds \ {t} :
                     /\ tasks'[u].status = tasks[u].status
                     /\ Occurrences(task_queues[p], u) > 0
                          => WaitsBefore(task_queues[p], t, u)]_vars
  /\ [][sched.pc = "backoff" /\ sched'.pc # "backoff"
          => LET q == task_queues'[tasks[sched.held].priority]
             IN /\ q[Len(q)] = sched.held
                /\ \A u \in TaskIds \ {sched.held} :
                     Occurrences(task_queues[tasks[sched.held].priority], u) > 0
                       => WaitsBefore(q, u, sched.held)]_vars

\* C28 happens: task 1 found no agent and was enqueued again behind task 2
\* of its priority, which was enqueued meanwhile; task 2 has its first
\* attempt while task 1 waits
C28_RequeuedBehindNewcomer ==
  /\ Len(tasks) = 2
  /\ tasks[1].priority = tasks[2].priority
  /\ 1 \in requeued /\ 2 \notin requeued
  /\ sched.held = 2
  /\ task_queues[tasks[1].priority] = <<1>>

\* the result _execute_task stores for an execution of the given outcome
ResultOf(outcome) ==
  CASE outcome = "collaboration error" -> CollaborativeError
    [] outcome = "database error" -> NoResult
    [] OTHER -> SingleAgentResult(outcome)

\* C29: the memory capability does not touch the core.  The step in which
\* _execute_task ends a task gives the task the status and result of its
\* execution outcome and the agent the record that follows from its record
\* before, the duration and the outcome, whether or not there is a memory
\* capability; and the step in which the memory request returns success,
\* returns failure or raises changes no task, agent, queue or table.
C29_MemoryDoesNotInfluenceCore ==
  /\ [][\A t \in TaskIds :
          exec[t].pc # "done" /\ exec'[t].pc = "done"
            => LET a == tasks[t].assigned_agent
                   working == IF exec[t].pc = "launched"
                              THEN [agents[a] EXCEPT !.status = "working", !.last_active = now']
                              ELSE agents[a]
                   completed == exec'[t].outcome # "database error"
               IN /\ tasks'[t].status = IF completed THEN "completed" ELSE "failed"
                  /\ tasks'[t].result = ResultOf(exec'[t].outcome)
                  /\ agents'[a] = CleanupAgent(update_agent_performance(
                                                 working, tasks'[t].actual_duration, completed))]_vars
  /\ [][\A t \in TaskIds :
          exec[t].memory = "storing" /\ exec'[t].memory # "storing"
            => /\ tasks' = tasks /\ agents' = agents /\ collaborations' = collaborations
               /\ task_queues' = task_queues
               /\ db_tasks' = db_tasks /\ db_agents' = db_agents
               /\ performance_metrics' = performance_metrics]_vars
  /\ [](\A t \in TaskIds :
          exec[t].memory # "none" => memento_available /\ tasks[t].status \in {"completed", "failed"})

\* C29 happens: the memory request for a completed task has returned while
\* the task's agent was at work on its next task
C29_StoredWhileAgentWorksOn ==
  \E t, u \in TaskIds :
    /\ exec[t].memory = "returned" /\ tasks[t].status = "completed"
    /\ tasks[u].assigned_agent = tasks[t].assigned_agent
    /\ tasks[u].status = "in_progress"
    /\ agents[tasks[u].assigned_agent].current_task = u

\* the lines of the text that start a subtask, in their order
BulletLines(lines) == SelectSeq(lines, IsBullet)

\* C30: for every text and every list of k non-primary agents
\* _parse_subtasks returns k subtasks: the first subtasks of the text in
\* the order of their lines, then, if the text has fewer than k, support
\* subtasks made for the agents at their places; the i-th subtask is paired
\* with the i-th agent.
C30_OneSubtaskPerAgent ==
  sel.stage = "parsed" =>
    LET k == Len(sel.agents)
        bullets == BulletLines(sel.lines)
    IN /\ Len(sel.subtasks) = k
       /\ \A i \in 1 .. k :
            IF i <= Len(bullets)
            THEN sel.subtasks[i].kind = "parsed" /\ sel.subtasks[i].description = bullets[i].body
            ELSE sel.subtasks[i].kind = "support" /\ sel.subtasks[i].description = sel.agents[i]
       /\ Len(sel.pairs) = k
       /\ \A i \in 1 .. k :
            sel.pairs[i].subtask = sel.subtasks[i] /\ sel.pairs[i].agent = sel.agents[i]

\* C30 happens: a text of one subtask with a line of details, for two
\* agents: the second agent gets a support subtask
C30_PaddedForSecondAgent ==
  /\ sel.stage = "parsed"
  /\ Len(sel.agents) = 2
  /\ Len(BulletLines(sel.lines)) = 1
  /\ sel.subtasks[1].kind = "parsed" /\ sel.subtasks[1].details # <<>>
  /\ sel.subtasks[2].kind = "support"
  /\ sel.pairs[2].agent = sel.agents[2]

\* the largest number of specializations an agent of the catalog has
MaxSpecializations ==
  CHOOSE n \in 0 .. 8 :
    /\ \E i \in CatalogIndex : Cardinality(DefaultAgents[i].specializations) = n
    /\ \A i \in CatalogIndex : Cardinality(DefaultAgents[i].specializations) <= n

\* the caps that can bind: fewer than an agent can have specializations
SpecializationCaps == 1 .. (MaxSpecializations - 1)

\* the specializations of the task the agent has
SpecializationOverlap(agent, task) ==
  Cardinality(task.context.specializations \cap agent.specializations)

\* the score as C31 gives it, the specialization term being spec_term
ScoreWith(agent, task, time_now, spec_term) ==
  LET required == task.context.required_capabilities
      avg == agent.average_completion_time
      coverage == IF required = {} THEN RatInt(0)
                  ELSE Rat(Cardinality(required \cap agent.capabilities), Cardinality(required))
      recency == IF (time_now - agent.last_active) * ClockStep < 3600 THEN 10 ELSE 0
      speed == IF task.priority \in {HIGH, CRITICAL, EMERGENCY} /\ avg[1] > 0
               THEN RatMul(RatInt(10), RatMin(RatInt(1), Rat(300 * avg[2], avg[1] * ClockStep)))
               ELSE RatInt(0)
  IN RatAdd(RatAdd(RatAdd(RatMul(agent.success_rate, RatInt(30)),
                          Rat((10 - agent.load_factor) * 20, 10)),
                   RatAdd(RatMul(coverage, RatInt(25)), RatInt(spec_term))),
            RatAdd(RatInt(recency), speed))

\* C31: the score is success_rate*30 + (1-load_factor)*20 + coverage*25
\* + 15 for each overlapping specialization up to a cap, nothing beyond it,
\* + 10 if the agent was active within the last hour + the speed bonus
\* 10*min(1, 300/average_completion_time) for priority high, critical or
\* emergency when average_completion_time > 0.
C31_ScoreWithCappedSpecializations ==
  sel.stage = "scored" =>
    \E cap \in SpecializationCaps :
      sel.score = ScoreWith(sel.agent, sel.task, sel.time_now,
                            15 * Min(SpecializationOverlap(sel.agent, sel.task), cap))

\* the agents at work for the collaboration: the primary agent until the
\* task ends, and each non-primary agent while its subtask is executing
AtWorkForCollaboration ==
  (IF sel.stage \in {"decomposition", "subtasks", "gathering", "returned"}
   THEN {sel.collaboration.primary_agent} ELSE {})
  \cup (IF sel.stage = "gathering" THEN {NonPrimary[i] : i \in sel.pending} ELSE {})

C33_AgentReturnsToIdle ==
  \A a \in AgentIndex : (agents[a].status # "idle") ~> Released(agents[a])

\* C34: every task that is assigned is completed or failed at some later
\* time.
C34_AssignedTaskEnds ==
  \A t \in 1 .. MaxTasks :
    (t \in TaskIds /\ tasks[t].status = "assigned")
      ~> (t \in TaskIds /\ tasks[t].status \in {"completed", "failed"})

\* C34 happens: a task whose request raised has ended completed, and a task
\* whose assignment raised has ended failed without an execution
C34_EndedWithAndWithoutExecution ==
  \E t, u \in TaskIds :
    /\ tasks[t].status = "completed" /\ exec[t].outcome = "raises"
    /\ tasks[u].status = "failed" /\ tasks[u].assigned_agent # Null /\ exec[u].pc = "none"

\* the task is over
Terminal(t) == tasks[t].status \in {"completed", "failed"}

\* C35: a step leaves the status, result and assigned_agent of a task that
\* is completed or failed as they are and starts no execution for it; and
\* such a task is in no queue, is not held by the scheduler, and has no
\* execution under way.
C35_TerminalIsAbsorbing ==
  /\ [][\A t \in TaskIds :
          Terminal(t)
            => /\ tasks'[t].status = tasks[t].status
               /\ tasks'[t].result = tasks[t].result
               /\ tasks'[t].assigned_agent = tasks[t].assigned_agent
               /\ exec'[t].pc = exec[t].pc]_vars
  /\ [](\A t \in TaskIds :
          Terminal(t)
            => /\ \A p \in TaskPriority : Occurrences(task_queues[p], t) = 0
               /\ sched.held # t /\ t \notin submitted
               /\ exec[t].pc \in {"none", "done"})

\* C35 happens: a task has failed, and the agent it had has since run
\* another task to completion
C35_AgentWentOnAfterFailure ==
  \E t, u \in TaskIds :
    /\ t # u
    /\ tasks[t].status = "failed" /\ exec[t].pc = "done" /\ tasks[t].result = NoResult
    /\ tasks[u].assigned_agent = tasks[t].assigned_agent
    /\ tasks[u].status = "completed" /\ exec[u].outcome = "success"

\* the number of times task t is in the queues
QueuedTimes(t) ==
  Cardinality({<<p, i>> \in TaskPriority \X (1 .. MaxTasks) :
                 i \in DOMAIN task_queues[p] /\ task_queues[p][i] = t})

\* C36: each task is at most once in the queues, only in the queue of its
\* priority, and only while it is pending without agent; the queues hold
\* nothing but stored tasks.
C36_QueuedOnceWhilePending ==
  /\ \A p \in TaskPriority :
       /\ Len(task_queues[p]) <= MaxTasks
       /\ \A i \in DOMAIN task_queues[p] : task_queues[p][i] \in TaskIds
  /\ \A t \in TaskIds :
       /\ QueuedTimes(t) <= 1
       /\ \A p \in TaskPriority :
            Occurrences(task_queues[p], t) > 0
              => /\ p = tasks[t].priority
                 /\ tasks[t].status = "pending"
                 /\ tasks[t].assigned_agent = Null

\* C36 happens: a task that found no agent is back in the queue of its
\* priority while another task waits in the queue of another priority
C36_TwoQueuesOneRequeued ==
  \E t, u \in TaskIds :
    /\ t \in requeued
    /\ tasks[t].priority # tasks[u].priority
    /\ task_queues[tasks[t].priority] = <<t>>
    /\ task_queues[tasks[u].priority] = <<u>>

\* C37: every pending task of the task store is in the queue of its
\* priority, is about to be put there by the jobs of its SubmitTask, or is
\* held by the scheduler for an assignment attempt; the tasks _load_state
\* has read from the database included.
C37_NoPendingTaskDropped ==
  \A t \in TaskIds :
    tasks[t].status = "pending"
      => \/ Occurrences(task_queues[tasks[t].priority], t) > 0
         \/ t \in submitted
         \/ sched.held = t

\* C38: in every state a task is in_progress exactly when the agent it is
\* assigned to is working with current_task naming it, and an idle agent
\* has no current_task.
C38_RecordsConsistent ==
  /\ \A t \in TaskIds :
       tasks[t].status = "in_progress"
         <=> /\ tasks[t].assigned_agent # Null
             /\ agents[tasks[t].assigned_agent].status = "working"
             /\ agents[tasks[t].assigned_agent].current_task = t
  /\ \A a \in AgentIndex :
       agents[a].status = "idle" => agents[a].current_task = Null

\* C39: once a task that was executed collaboratively is completed or
\* failed, the collaboration created for it has status completed and its
\* completed_at is set.
C39_CollaborationEndsWithTask ==
  \A c \in DOMAIN collaborations :
    Terminal(collaborations[c].task_id)
      => collaborations[c].status = "completed" /\ collaborations[c].completed

\* what the interface calls a rejected submission
RejectedRequest(request) ==
  \/ request.priority < 1 \/ request.priority > 5
  \/ request.context # EmptyText /\ "json" \notin DOMAIN request.context

\* C40: a SubmitTask call whose priority is outside 1..5 or whose context
\* is not valid JSON returns the empty id and leaves the task store, every
\* priority queue and every agent as they were; it creates no job and
\* writes nothing.
C40_RejectedSubmitChangesNothing ==
  [][sel' # sel /\ RejectedRequest(sel'.request)
       => /\ sel'.reply = EmptyId
          /\ UNCHANGED <<tasks, task_queues, agents, submitted, db_tasks, exec>>]_vars

\* C40 happens: a call was rejected while a task was stored, a task waited
\* in a queue and an agent was at work
C40_RejectedWhileBusy ==
  /\ sel.stage = "replied" /\ RejectedRequest(sel.request) /\ sel.reply = EmptyId
  /\ Len(tasks) = 1
  /\ \E a \in AgentIndex : agents[a].status = "working"

====
